---- MODULE Spec2Model ----
(***************************************************************************)
(* Model of the CodeBuddy stream adapter (createCodeBuddyStreamFn): one    *)
(* invocation of the returned stream function translating the upstream     *)
(* message sequence of query() into the events pushed on the downstream    *)
(* event stream.  Two builds of the adapter exist in the sources: the      *)
(* deployed one, which skips tool_use blocks, and the earlier one, which   *)
(* forwards them as toolcall events; toolPolicy selects the build.         *)
(***************************************************************************)
EXTENDS Integers, Sequences, FiniteSets, TLC

(* ---------------- bounds of the model ---------------- *)
\* upstream messages delivered to one translation
MaxMsgs == 2
\* content blocks delivered to one translation, over all assistant messages
MaxBlocks == 2
\* messages of the conversation context handed to the stream function
MaxCtxMsgs == 3

(* ---------------- upstream vocabulary ---------------- *)
\* an optional number that is absent (undefined) in the upstream JSON
Absent == 0 - 1

Texts == {"a", "b"}

TextBlock(t) == [type |-> "text", text |-> t]

ToolUseBlock == [type |-> "tool_use", id |-> "tool_1", name |-> "Read", input |-> "args_1"]

ToolResultBlock == [type |-> "tool_result", tool_use_id |-> "tool_1", content |-> "out_1"]

Blocks == {TextBlock(t) : t \in Texts} \cup {ToolUseBlock, ToolResultBlock}

\* sequences of blocks of length 0..n
BlockSeqs(n) == UNION {[1..k -> Blocks] : k \in 0..n}

\* usage of a result message: present is FALSE when the message has no usage
NoUsage ==
  [present |-> FALSE, input_tokens |-> Absent, output_tokens |-> Absent,
   cache_read_input_tokens |-> Absent, cache_creation_input_tokens |-> Absent]

FullUsage ==
  [present |-> TRUE, input_tokens |-> 10, output_tokens |-> 5,
   cache_read_input_tokens |-> 8, cache_creation_input_tokens |-> 2]

PartialUsage ==
  [present |-> TRUE, input_tokens |-> Absent, output_tokens |-> 7,
   cache_read_input_tokens |-> Absent, cache_creation_input_tokens |-> Absent]

ResultUsages == {NoUsage, FullUsage, PartialUsage}

\* stop_reason of a result message; "undefined" is the absent field
StopReasons == {"undefined", "end_turn", "max_tokens", "tool_use"}

\* assistant message; hasContent is FALSE when message.content is missing
AssistantMsg(hc, bs) == [type |-> "assistant", hasContent |-> hc, content |-> bs]

ResultMsg(sr, u) == [type |-> "result", stop_reason |-> sr, usage |-> u]

SystemMsg == [type |-> "system"]

OtherMsg == [type |-> "file-history-snapshot"]

\* the upstream messages with at most n blocks
Messages(n) ==
  {AssistantMsg(TRUE, bs) : bs \in BlockSeqs(n)}
    \cup {AssistantMsg(FALSE, <<>>)}
    \cup {ResultMsg(sr, u) : sr \in StopReasons, u \in ResultUsages}
    \cup {SystemMsg, OtherMsg}

\* what the upstream can throw: an Error with a message, or a bare string
\* (message is err.message, str is String(err))
ErrorBoom == [isError |-> TRUE, message |-> "boom", str |-> "Error: boom"]

PlainString == [isError |-> FALSE, message |-> "undefined", str |-> "plain"]

Faults == {ErrorBoom, PlainString}

NoFault == [isError |-> FALSE, message |-> "undefined", str |-> "undefined"]

ModelId == "claude-opus-4.6"

SdkMissingText == "CodeBuddy SDK not found. Install it with: pnpm add @tencent-ai/agent-sdk"

(* ---------------- context vocabulary ---------------- *)
\* A text of the context is a sequence of tokens, so that it can be taken apart
\* again; the tokens below are the ones the prompt builder and JSON.stringify add.
QUOTE == "\""

BACKSLASH == "\\"

NL == "\n"

HistOpen == "<conversation_history>"

HistClose == "</conversation_history>"

CurOpen == "<current_message>"

CurClose == "</current_message>"

\* blocks of an array content: a text block, a text block whose text is no string,
\* and a tool_use block
CtxTextBlock(t) == [type |-> "text", textIsString |-> TRUE, text |-> t]

CtxBadTextBlock == [type |-> "text", textIsString |-> FALSE, text |-> <<>>]

CtxToolUseBlock == [type |-> "tool_use", textIsString |-> FALSE, text |-> <<>>]

\* the content field: a string, an array of blocks, or undefined
StringContent(t) == [kind |-> "string", text |-> t, blocks |-> <<>>]

ArrayContent(bs) == [kind |-> "array", text |-> <<>>, blocks |-> bs]

UndefinedContent == [kind |-> "undefined", text |-> <<>>, blocks |-> <<>>]

ContextContents ==
  {StringContent(<<"x">>), StringContent(<<>>),
   ArrayContent(<<CtxTextBlock(<<"y">>), CtxToolUseBlock, CtxBadTextBlock, CtxTextBlock(<<"z">>)>>),
   ArrayContent(<<CtxToolUseBlock>>),
   UndefinedContent}

Roles == {"user", "assistant", "system", "tool"}

ContextMessages == {[role |-> r, content |-> c] : r \in Roles, c \in ContextContents}

\* the contexts of at most n messages
Contexts(n) == UNION {[1..k -> ContextMessages] : k \in 0..n}

\* texts that hold the delimiters of the wrapped prompt and the characters
\* JSON.stringify escapes
DelimiterContents ==
  {StringContent(<<"x">>),
   StringContent(<<QUOTE, NL, HistClose, NL, NL, CurOpen, NL, "x">>),
   StringContent(<<BACKSLASH, "n", NL, CurClose, "]", BACKSLASH>>)}

DelimiterMessages ==
  {[role |-> r, content |-> c] : r \in {"user", "assistant"}, c \in DelimiterContents}

DelimiterContexts(n) == UNION {[1..k -> DelimiterMessages] : k \in 0..n}

\* the context of the single-turn tests
SingleTurnContext == <<[role |-> "user", content |-> StringContent(<<"x">>)]>>

\* a context with history before the last user message
MultiTurnContext ==
  <<[role |-> "user", content |-> StringContent(<<"x">>)],
    [role |-> "assistant", content |-> StringContent(<<"x">>)],
    [role |-> "user", content |-> StringContent(<<"x">>)]>>

\* context.systemPrompt: a string, missing, or a value that is no string
StringSystemPrompt(t) == [kind |-> "string", text |-> t]

NoSystemPrompt == [kind |-> "undefined", text |-> ""]

NonStringSystemPrompt == [kind |-> "object", text |-> ""]

SystemPrompts ==
  {NoSystemPrompt, NonStringSystemPrompt, StringSystemPrompt(""), StringSystemPrompt("sys")}

\* model.maxTokens of the model argument (model.id is ModelId)
ModelMaxTokens == 8192

\* streamOptions: missing, or with maxTokens and temperature each given or not
\* (temperature in tenths)
NoStreamOptions == [given |-> FALSE, maxTokens |-> Absent, temperature |-> Absent]

StreamOptions(mt, temp) == [given |-> TRUE, maxTokens |-> mt, temperature |-> temp]

StreamOptionsSet ==
  {NoStreamOptions, StreamOptions(Absent, Absent), StreamOptions(0, 0),
   StreamOptions(1000, 7), StreamOptions(Absent, 7)}

\* an optional string of the query options
UndefinedString == [defined |-> FALSE, text |-> ""]

DefinedString(t) == [defined |-> TRUE, text |-> t]

\* the messages parameter of the query call: the key is not there at all, it is
\* there with the value undefined, or it holds a list of turns
NoMessagesKey == [kind |-> "none", turns |-> <<>>]

UndefinedMessages == [kind |-> "undefined", turns |-> <<>>]

MessagesList(turns) == [kind |-> "list", turns |-> turns]

\* the options of lastQuery before the query function has been called
NoOptions ==
  [model |-> "", permissionMode |-> "", systemPrompt |-> UndefinedString,
   maxTokens |-> Absent, temperature |-> Absent]

\* lastQuery before the query function has been called
NoQuery ==
  [called |-> FALSE, threw |-> FALSE, prompt |-> <<>>, options |-> NoOptions,
   messages |-> NoMessagesKey]

\* prevRun while there is no invocation before this one
NoRun ==
  [finished |-> FALSE, events |-> <<>>, consumed |-> <<>>, fault |-> NoFault,
   importFailed |-> FALSE, query |-> NoQuery, streamOptions |-> NoStreamOptions]

(* ---------------- state ---------------- *)
VARIABLES
  toolPolicy,          \* "suppress" (deployed adapter) or "forward" (earlier variant)
  resolvedQueryFn,     \* closure variable: "null" or "fn"
  pc,                  \* position of the async body of one invocation
  events,              \* events pushed on eventStream, in order
  endCalls,            \* number of eventStream.end() calls
  accumulatedContent,  \* content items accumulated by this translation
  contentIndex,        \* next content index
  currentUsage,        \* running usage counters
  queryCalls,          \* number of calls of the query function
  consumed,            \* upstream messages delivered so far (history)
  fault,               \* the fault raised by the upstream, if any (history)
  importFailed,        \* TRUE once the dynamic import has been rejected (history)
  context,             \* context.messages of the invocation
  lastQuery,           \* parameters of the last call of the query function (history)
  priorDirty,          \* TRUE once an earlier invocation of the same stream function
                       \* has ended with content accumulated and usage set (history)
  systemPrompt,        \* context.systemPrompt of the invocation
  streamOptions,       \* the third argument of the stream function
  prevRun,             \* inputs and events of the invocation before this one (history)
  other                \* a second invocation of the same stream function in flight

vars == <<toolPolicy, resolvedQueryFn, pc, events, endCalls, accumulatedContent,
          contentIndex, currentUsage, queryCalls, consumed, fault, importFailed,
          context, lastQuery, priorDirty, systemPrompt,
                 streamOptions, prevRun, other>>

(* ---------------- prompt builder ---------------- *)
RECURSIVE JoinTexts(_)
\* .filter(text block with a string text).map(b => b.text).join("")
JoinTexts(blocks) ==
  IF blocks = <<>> THEN <<>>
  ELSE (IF Head(blocks).type = "text" /\ Head(blocks).textIsString
          THEN Head(blocks).text ELSE <<>>)
         \o JoinTexts(Tail(blocks))

extractTextFromContent(content) ==
  IF content.kind = "string" THEN content.text
  ELSE IF content.kind = "array" THEN JoinTexts(content.blocks)
  ELSE <<>>

\* mutant: the prompt is the text of the last message, whatever its role
extractPromptFromContextAnyRole(messages) ==
  IF messages = <<>> THEN <<>>
  ELSE extractTextFromContent(messages[Len(messages)].content)

IsUserMessage(m) == m.role = "user"

extractPromptFromContext(messages) ==
  LET userMessages == SelectSeq(messages, IsUserMessage)
  IN IF userMessages = <<>> THEN <<>>
     ELSE extractTextFromContent(userMessages[Len(userMessages)].content)

\* the variant of part_001: of an array content only the first text block counts
RECURSIVE FirstTextBlock(_)
FirstTextBlock(blocks) ==
  IF blocks = <<>> THEN <<>>
  ELSE IF Head(blocks).type = "text" /\ Head(blocks).textIsString THEN Head(blocks).text
  ELSE FirstTextBlock(Tail(blocks))

extractPromptFromContext_part001(messages) ==
  LET userMessages == SelectSeq(messages, IsUserMessage)
      content == userMessages[Len(userMessages)].content
  IN IF userMessages = <<>> THEN <<>>
     ELSE IF content.kind = "string" THEN content.text
     ELSE IF content.kind = "array" THEN FirstTextBlock(content.blocks)
     ELSE <<>>

\* the loop that looks for the last user message; the index counts from 0 and is
\* -1 when there is none
LastUserIdx(messages) ==
  LET users == {i \in 1..Len(messages) : messages[i].role = "user"}
  IN IF users = {} THEN 0 - 1
     ELSE (CHOOSE i \in users : \A j \in users : j <= i) - 1

\* mutant: the role test of the history loop is lost
RECURSIVE SerializeHistoryAllRoles(_)
SerializeHistoryAllRoles(msgs) ==
  IF msgs = <<>> THEN <<>>
  ELSE LET msg == Head(msgs)
           text == extractTextFromContent(msg.content)
       IN (IF text # <<>>
             THEN <<[role |-> msg.role, content |-> text]>> ELSE <<>>)
            \o SerializeHistoryAllRoles(Tail(msgs))

\* the loop over historyMessages that fills serialized
RECURSIVE SerializeHistory(_)
SerializeHistory(msgs) ==
  IF msgs = <<>> THEN <<>>
  ELSE LET msg == Head(msgs)
           text == extractTextFromContent(msg.content)
       IN (IF msg.role \in {"user", "assistant"} /\ text # <<>>
             THEN <<[role |-> msg.role, content |-> text]>> ELSE <<>>)
            \o SerializeHistory(Tail(msgs))

\* mutant: the text is put between the quotes as it is
JsonEscapeNone(text) == text

\* JSON.stringify of a string: quotes around the escaped text
RECURSIVE JsonEscape(_)
JsonEscape(text) ==
  IF text = <<>> THEN <<>>
  ELSE (IF Head(text) = QUOTE THEN <<BACKSLASH, QUOTE>>
        ELSE IF Head(text) = BACKSLASH THEN <<BACKSLASH, BACKSLASH>>
        ELSE IF Head(text) = NL THEN <<BACKSLASH, "n">>
        ELSE <<Head(text)>>)
         \o JsonEscape(Tail(text))

JsonString(text) == <<QUOTE>> \o JsonEscape(text) \o <<QUOTE>>

\* one {role, content} record at indent 2
JsonRecord(r) ==
  <<"  ", "{", NL, "    ">> \o JsonString(<<"role">>) \o <<":", " ">> \o JsonString(<<r.role>>)
    \o <<",", NL, "    ">> \o JsonString(<<"content">>) \o <<":", " ">> \o JsonString(r.content)
    \o <<NL, "  ", "}">>

RECURSIVE JsonRecords(_)
JsonRecords(rs) ==
  IF Len(rs) = 1 THEN JsonRecord(rs[1])
  ELSE JsonRecord(Head(rs)) \o <<",", NL>> \o JsonRecords(Tail(rs))

\* JSON.stringify(serialized, null, 2)
JsonStringify(rs) ==
  IF rs = <<>> THEN <<"[", "]">>
  ELSE <<"[", NL>> \o JsonRecords(rs) \o <<NL, "]">>

WrapPrompt(historyJson, currentPrompt) ==
  <<HistOpen, NL>> \o historyJson \o <<NL, HistClose, NL, NL, CurOpen, NL>>
    \o currentPrompt \o <<NL, CurClose>>

\* mutant: the test for an empty serialized history is lost
buildPromptWithHistoryNoEmptyTest(messages) ==
  LET currentPrompt == extractPromptFromContext(messages)
      lastUserIdx == LastUserIdx(messages)
      serialized == SerializeHistory(SubSeq(messages, 1, lastUserIdx))
  IN IF lastUserIdx <= 0 THEN currentPrompt
     ELSE WrapPrompt(JsonStringify(serialized), currentPrompt)

\* mutant: the history is every message other than the last user message
buildPromptWithHistoryAllOthers(messages) ==
  LET currentPrompt == extractPromptFromContext(messages)
      lastUserIdx == LastUserIdx(messages)
      serialized == SerializeHistory(SubSeq(messages, 1, lastUserIdx)
                                       \o SubSeq(messages, lastUserIdx + 2, Len(messages)))
  IN IF lastUserIdx <= 0 THEN currentPrompt
     ELSE IF serialized = <<>> THEN currentPrompt
     ELSE WrapPrompt(JsonStringify(serialized), currentPrompt)

buildPromptWithHistory(messages) ==
  LET currentPrompt == extractPromptFromContext(messages)
      lastUserIdx == LastUserIdx(messages)
      serialized == SerializeHistory(SubSeq(messages, 1, lastUserIdx))
  IN IF lastUserIdx <= 0 THEN currentPrompt
     ELSE IF serialized = <<>> THEN currentPrompt
     ELSE WrapPrompt(JsonStringify(serialized), currentPrompt)

\* the prompt handed to the query function by each build of the adapter
BuildPrompt(policy, messages) ==
  IF policy = "suppress" THEN buildPromptWithHistory(messages)
  ELSE extractPromptFromContext_part001(messages)

(* ---------------- history as turns (part_001) ---------------- *)
\* a block of a converted message; a missing id, name or input becomes "", "", {}
ConvertBlock(block) ==
  IF block.type = "text" /\ block.textIsString
    THEN <<[type |-> "text", text |-> block.text]>>
  ELSE IF block.type = "tool_use"
    THEN <<[type |-> "tool_use", id |-> "", name |-> "", input |-> "{}"]>>
  ELSE <<>>

RECURSIVE ConvertBlocks(_)
ConvertBlocks(blocks) ==
  IF blocks = <<>> THEN <<>>
  ELSE ConvertBlock(Head(blocks)) \o ConvertBlocks(Tail(blocks))

\* the converted message, or no message for the roles system and tool
convertContextMessageToCodeBuddy(msg) ==
  IF msg.role \in {"system", "tool"} THEN <<>>
  ELSE IF msg.content.kind = "string"
    THEN <<[role |-> msg.role, content |-> StringContent(msg.content.text)]>>
  ELSE IF msg.content.kind = "array"
    THEN LET blocks == ConvertBlocks(msg.content.blocks)
         IN <<[role |-> msg.role,
               content |-> IF blocks # <<>> THEN ArrayContent(blocks) ELSE StringContent(<<>>)]>>
  ELSE <<[role |-> msg.role, content |-> StringContent(<<>>)]>>

RECURSIVE convertContextToCodeBuddyMessages(_)
convertContextToCodeBuddyMessages(messages) ==
  IF messages = <<>> THEN <<>>
  ELSE convertContextMessageToCodeBuddy(Head(messages))
         \o convertContextToCodeBuddyMessages(Tail(messages))

\* messages.slice(0, -1)
DropLast(messages) == SubSeq(messages, 1, Len(messages) - 1)

\* the messages parameter of the query call in each build
QueryMessages(policy, messages) ==
  IF policy = "suppress" THEN NoMessagesKey
  ELSE LET historyMessages == DropLast(convertContextToCodeBuddyMessages(messages))
       IN IF Len(historyMessages) > 0 THEN MessagesList(historyMessages)
          ELSE UndefinedMessages

(* ---------------- helpers of the adapter ---------------- *)
ZeroCost == [input |-> 0, output |-> 0, cacheRead |-> 0, cacheWrite |-> 0, total |-> 0]

createDefaultUsage ==
  [input |-> 0, output |-> 0, cacheRead |-> 0, cacheWrite |-> 0, totalTokens |-> 0,
   cost |-> ZeroCost]

\* the ?? operator on an optional number
Coalesce(x, d) == IF x = Absent THEN d ELSE x

\* the timestamp field (Date.now()) is left out of every message
createPartialMessage(content, usage, modelId) ==
  [role |-> "assistant", content |-> content, provider |-> "codebuddy", model |-> modelId,
   api |-> "anthropic-messages", stopReason |-> "stop", usage |-> usage]

\* mutant: the text is always String(err)
ErrTextString(err) == err.str

\* err instanceof Error ? err.message : String(err)
ErrText(err) == IF err.isError THEN err.message ELSE err.str

ErrorEvent(text, modelId) ==
  [type |-> "error", reason |-> "error",
   error |-> createPartialMessage(<<[type |-> "text", text |-> text]>>, createDefaultUsage, modelId)]

StartEvent(usage) ==
  [type |-> "start", partial |-> createPartialMessage(<<>>, usage, ModelId)]

\* the translation state threaded through the blocks of one assistant message
St(ev, acc, idx) == [events |-> ev, acc |-> acc, idx |-> idx]

\* mutant: contentIndex++ is lost
ProcessTextBlockNoAdvance(st, block, usage) ==
  LET item == [type |-> "text", text |-> block.text]
      acc2 == Append(st.acc, item)
  IN St(st.events \o
          << [type |-> "text_start", contentIndex |-> st.idx,
              partial |-> createPartialMessage(st.acc, usage, ModelId)],
             [type |-> "text_delta", contentIndex |-> st.idx, delta |-> block.text,
              partial |-> createPartialMessage(st.acc, usage, ModelId)],
             [type |-> "text_end", contentIndex |-> st.idx, content |-> block.text,
              partial |-> createPartialMessage(acc2, usage, ModelId)] >>,
        acc2, st.idx)

\* mutant: the text_delta push is lost
ProcessTextBlockNoDelta(st, block, usage) ==
  LET item == [type |-> "text", text |-> block.text]
      acc2 == Append(st.acc, item)
  IN St(st.events \o
          << [type |-> "text_start", contentIndex |-> st.idx,
              partial |-> createPartialMessage(st.acc, usage, ModelId)],
             [type |-> "text_end", contentIndex |-> st.idx, content |-> block.text,
              partial |-> createPartialMessage(acc2, usage, ModelId)] >>,
        acc2, st.idx + 1)

\* mutant: a text item takes the place of the last accumulated item
ProcessTextBlockReplace(st, block, usage) ==
  LET item == [type |-> "text", text |-> block.text]
      acc2 == IF st.acc = <<>> THEN <<item>>
              ELSE [st.acc EXCEPT ![Len(st.acc)] = item]
  IN St(st.events \o
          << [type |-> "text_start", contentIndex |-> st.idx,
              partial |-> createPartialMessage(st.acc, usage, ModelId)],
             [type |-> "text_delta", contentIndex |-> st.idx, delta |-> block.text,
              partial |-> createPartialMessage(st.acc, usage, ModelId)],
             [type |-> "text_end", contentIndex |-> st.idx, content |-> block.text,
              partial |-> createPartialMessage(acc2, usage, ModelId)] >>,
        acc2, st.idx + 1)

\* mutant: the text item is appended before the text_delta event is pushed
ProcessTextBlockEarlyAppend(st, block, usage) ==
  LET item == [type |-> "text", text |-> block.text]
      acc2 == Append(st.acc, item)
  IN St(st.events \o
          << [type |-> "text_start", contentIndex |-> st.idx,
              partial |-> createPartialMessage(st.acc, usage, ModelId)],
             [type |-> "text_delta", contentIndex |-> st.idx, delta |-> block.text,
              partial |-> createPartialMessage(acc2, usage, ModelId)],
             [type |-> "text_end", contentIndex |-> st.idx, content |-> block.text,
              partial |-> createPartialMessage(acc2, usage, ModelId)] >>,
        acc2, st.idx + 1)

ProcessTextBlock(st, block, usage) ==
  LET item == [type |-> "text", text |-> block.text]
      acc2 == Append(st.acc, item)
  IN St(st.events \o
          << [type |-> "text_start", contentIndex |-> st.idx,
              partial |-> createPartialMessage(st.acc, usage, ModelId)],
             [type |-> "text_delta", contentIndex |-> st.idx, delta |-> block.text,
              partial |-> createPartialMessage(st.acc, usage, ModelId)],
             [type |-> "text_end", contentIndex |-> st.idx, content |-> block.text,
              partial |-> createPartialMessage(acc2, usage, ModelId)] >>,
        acc2, st.idx + 1)

\* mutant: the tool call is appended before the toolcall_start event is pushed
ProcessToolUseBlockEarlyAppend(st, block, usage) ==
  LET toolCall == [type |-> "toolCall", id |-> block.id, name |-> block.name,
                   arguments |-> block.input]
      acc2 == Append(st.acc, toolCall)
  IN St(st.events \o
          << [type |-> "toolcall_start", contentIndex |-> st.idx,
              partial |-> createPartialMessage(acc2, usage, ModelId)],
             [type |-> "toolcall_end", contentIndex |-> st.idx, toolCall |-> toolCall,
              partial |-> createPartialMessage(acc2, usage, ModelId)] >>,
        acc2, st.idx + 1)

ProcessToolUseBlock(st, block, usage) ==
  LET toolCall == [type |-> "toolCall", id |-> block.id, name |-> block.name,
                   arguments |-> block.input]
      acc2 == Append(st.acc, toolCall)
  IN St(st.events \o
          << [type |-> "toolcall_start", contentIndex |-> st.idx,
              partial |-> createPartialMessage(st.acc, usage, ModelId)],
             [type |-> "toolcall_end", contentIndex |-> st.idx, toolCall |-> toolCall,
              partial |-> createPartialMessage(acc2, usage, ModelId)] >>,
        acc2, st.idx + 1)

\* mutant: tool_use blocks are forwarded whatever the policy
ProcessBlockForwardAlways(st, block, usage, policy) ==
  IF block.type = "text" THEN ProcessTextBlock(st, block, usage)
  ELSE IF block.type = "tool_use" THEN ProcessToolUseBlock(st, block, usage)
  ELSE st

\* mutant: a tool_result block is forwarded as a text block
ProcessBlockForwardResult(st, block, usage, policy) ==
  IF block.type = "text" THEN ProcessTextBlock(st, block, usage)
  ELSE IF block.type = "tool_use" /\ policy = "forward" THEN ProcessToolUseBlock(st, block, usage)
  ELSE IF block.type = "tool_result"
    THEN ProcessTextBlock(st, [type |-> "text", text |-> block.content], usage)
  ELSE st

ProcessBlock(st, block, usage, policy) ==
  IF block.type = "text" THEN ProcessTextBlock(st, block, usage)
  ELSE IF block.type = "tool_use" /\ policy = "forward" THEN ProcessToolUseBlock(st, block, usage)
  ELSE st

\* mutant: the blocks of a message are visited last to first
RECURSIVE ProcessBlocksReversed(_, _, _, _)
ProcessBlocksReversed(st, blocks, usage, policy) ==
  IF blocks = <<>> THEN st
  ELSE ProcessBlock(ProcessBlocksReversed(st, Tail(blocks), usage, policy),
                    Head(blocks), usage, policy)

RECURSIVE ProcessBlocks(_, _, _, _)
ProcessBlocks(st, blocks, usage, policy) ==
  IF blocks = <<>> THEN st
  ELSE ProcessBlocks(ProcessBlock(st, Head(blocks), usage, policy), Tail(blocks), usage, policy)

\* mutant: the two cache counters are crossed
UsageFromResultSwapped(u) ==
  [input |-> Coalesce(u.input_tokens, 0),
   output |-> Coalesce(u.output_tokens, 0),
   cacheRead |-> Coalesce(u.cache_creation_input_tokens, 0),
   cacheWrite |-> Coalesce(u.cache_read_input_tokens, 0),
   totalTokens |-> Coalesce(u.input_tokens, 0) + Coalesce(u.output_tokens, 0),
   cost |-> ZeroCost]

\* mutant: the cache counters are added into totalTokens
UsageFromResultTotalAll(u) ==
  [input |-> Coalesce(u.input_tokens, 0),
   output |-> Coalesce(u.output_tokens, 0),
   cacheRead |-> Coalesce(u.cache_read_input_tokens, 0),
   cacheWrite |-> Coalesce(u.cache_creation_input_tokens, 0),
   totalTokens |-> Coalesce(u.input_tokens, 0) + Coalesce(u.output_tokens, 0)
                     + Coalesce(u.cache_read_input_tokens, 0)
                     + Coalesce(u.cache_creation_input_tokens, 0),
   cost |-> ZeroCost]

UsageFromResult(u) ==
  [input |-> Coalesce(u.input_tokens, 0),
   output |-> Coalesce(u.output_tokens, 0),
   cacheRead |-> Coalesce(u.cache_read_input_tokens, 0),
   cacheWrite |-> Coalesce(u.cache_creation_input_tokens, 0),
   totalTokens |-> Coalesce(u.input_tokens, 0) + Coalesce(u.output_tokens, 0),
   cost |-> ZeroCost]

\* mutant: tool_use maps to stop whatever the policy
MapStopReasonNoToolUse(raw, policy) ==
  IF raw = "max_tokens" THEN "length" ELSE "stop"

\* mutant: tool_use maps to toolUse whatever the policy
MapStopReasonToolUse(raw, policy) ==
  IF raw = "tool_use" THEN "toolUse"
  ELSE IF raw = "max_tokens" THEN "length"
  ELSE "stop"

\* mutant: the forwarding build reports a missing stop reason as an error
MapStopReasonForwardMissing(raw, policy) ==
  IF policy = "forward" /\ raw = "tool_use" THEN "toolUse"
  ELSE IF policy = "forward" /\ raw = "undefined" THEN "error"
  ELSE IF raw = "max_tokens" THEN "length"
  ELSE "stop"

MapStopReason(raw, policy) ==
  IF policy = "forward" /\ raw = "tool_use" THEN "toolUse"
  ELSE IF raw = "max_tokens" THEN "length"
  ELSE "stop"

\* mutant: the final message is built with empty content
DoneEventNoContent(stopReason, content, usage) ==
  [type |-> "done", reason |-> stopReason,
   message |-> [role |-> "assistant", content |-> <<>>, provider |-> "codebuddy",
                model |-> ModelId, api |-> "anthropic-messages",
                stopReason |-> stopReason, usage |-> usage]]

DoneEvent(stopReason, content, usage) ==
  [type |-> "done", reason |-> stopReason,
   message |-> [role |-> "assistant", content |-> content, provider |-> "codebuddy",
                model |-> ModelId, api |-> "anthropic-messages",
                stopReason |-> stopReason, usage |-> usage]]

\* number of blocks carried by the messages of a sequence
RECURSIVE BlockCount(_)
BlockCount(msgs) ==
  IF msgs = <<>> THEN 0
  ELSE (IF Head(msgs).type = "assistant" THEN Len(Head(msgs).content) ELSE 0)
         + BlockCount(Tail(msgs))

(* ---------------- query options ---------------- *)
extractSystemPrompt(system) ==
  IF system.kind = "string" THEN DefinedString(system.text) ELSE UndefinedString

\* mutant: || in place of ??, so a maxTokens of 0 gives way to the model's
BuildQueryOptionsOr(system, opts) ==
  [model |-> ModelId,
   permissionMode |-> "bypassPermissions",
   systemPrompt |-> extractSystemPrompt(system),
   maxTokens |-> IF opts.maxTokens \in {Absent, 0} THEN ModelMaxTokens ELSE opts.maxTokens,
   temperature |-> opts.temperature]

\* queryOptions; streamOptions?.x of missing stream options is undefined
BuildQueryOptions(system, opts) ==
  [model |-> ModelId,
   permissionMode |-> "bypassPermissions",
   systemPrompt |-> extractSystemPrompt(system),
   maxTokens |-> Coalesce(IF opts.given THEN opts.maxTokens ELSE Absent, ModelMaxTokens),
   temperature |-> IF opts.given THEN opts.temperature ELSE Absent]

\* the parameters of the query call, with whether the call threw
QueryParams(thrown) ==
  [called |-> TRUE, threw |-> thrown,
   prompt |-> BuildPrompt(toolPolicy, context),
   options |-> BuildQueryOptions(systemPrompt, streamOptions),
   messages |-> QueryMessages(toolPolicy, context)]

(* ---------------- a second invocation ---------------- *)
\* the locals of an invocation that has called the query and pushed start
StartedInvocation ==
  [pc |-> "consuming", events |-> <<StartEvent(createDefaultUsage)>>,
   accumulatedContent |-> <<>>, contentIndex |-> 0, currentUsage |-> createDefaultUsage,
   consumed |-> <<>>]

\* one turn of the for-await loop of the invocation inv on the message msg
LoopTurn(inv, msg, policy) ==
  LET st == IF msg.type = "assistant" /\ msg.hasContent
              THEN ProcessBlocks(St(inv.events, inv.accumulatedContent, inv.contentIndex),
                                 msg.content, inv.currentUsage, policy)
              ELSE St(inv.events, inv.accumulatedContent, inv.contentIndex)
      usage == IF msg.type = "result" /\ msg.usage.present
                 THEN UsageFromResult(msg.usage) ELSE inv.currentUsage
      evs == IF msg.type = "result"
               THEN Append(st.events,
                      DoneEvent(MapStopReason(msg.stop_reason, policy), st.acc, usage))
               ELSE st.events
  IN [pc |-> inv.pc, events |-> evs, accumulatedContent |-> st.acc,
      contentIndex |-> st.idx, currentUsage |-> usage,
      consumed |-> Append(inv.consumed, msg)]

\* other while no second invocation is in flight
NoInvocation ==
  [pc |-> "none", events |-> <<>>, accumulatedContent |-> <<>>, contentIndex |-> 0,
   currentUsage |-> createDefaultUsage, consumed |-> <<>>]

(* ---------------- initial state ---------------- *)
Init ==
  /\ toolPolicy \in {"suppress", "forward"}
  /\ resolvedQueryFn \in {"null", "fn"}
  /\ pc = "idle"
  /\ events = <<>>
  /\ endCalls = 0
  /\ accumulatedContent = <<>>
  /\ contentIndex = 0
  /\ currentUsage = createDefaultUsage
  /\ queryCalls = 0
  /\ consumed = <<>>
  /\ fault = NoFault
  /\ importFailed = FALSE
  /\ context = SingleTurnContext
  /\ lastQuery = NoQuery
  /\ priorDirty = FALSE
  /\ systemPrompt = NoSystemPrompt
  /\ streamOptions = NoStreamOptions
  /\ prevRun = NoRun
  /\ other = NoInvocation

\* one invocation for each context, with the query function injected
InitPrompt ==
  /\ toolPolicy = "suppress"
  /\ resolvedQueryFn = "fn"
  /\ pc = "idle"
  /\ events = <<>>
  /\ endCalls = 0
  /\ accumulatedContent = <<>>
  /\ contentIndex = 0
  /\ currentUsage = createDefaultUsage
  /\ queryCalls = 0
  /\ consumed = <<>>
  /\ fault = NoFault
  /\ importFailed = FALSE
  /\ context \in Contexts(MaxCtxMsgs)
  /\ lastQuery = NoQuery
  /\ priorDirty = FALSE
  /\ systemPrompt = NoSystemPrompt
  /\ streamOptions = NoStreamOptions
  /\ prevRun = NoRun
  /\ other = NoInvocation

\* one invocation for each context whose texts hold delimiters and escapes
InitRoundTrip ==
  /\ toolPolicy = "suppress"
  /\ resolvedQueryFn = "fn"
  /\ pc = "idle"
  /\ events = <<>>
  /\ endCalls = 0
  /\ accumulatedContent = <<>>
  /\ contentIndex = 0
  /\ currentUsage = createDefaultUsage
  /\ queryCalls = 0
  /\ consumed = <<>>
  /\ fault = NoFault
  /\ importFailed = FALSE
  /\ context \in DelimiterContexts(MaxCtxMsgs)
  /\ lastQuery = NoQuery
  /\ priorDirty = FALSE
  /\ systemPrompt = NoSystemPrompt
  /\ streamOptions = NoStreamOptions
  /\ prevRun = NoRun
  /\ other = NoInvocation

\* one invocation of the earlier build for each context
InitTurns ==
  /\ toolPolicy = "forward"
  /\ resolvedQueryFn = "fn"
  /\ pc = "idle"
  /\ events = <<>>
  /\ endCalls = 0
  /\ accumulatedContent = <<>>
  /\ contentIndex = 0
  /\ currentUsage = createDefaultUsage
  /\ queryCalls = 0
  /\ consumed = <<>>
  /\ fault = NoFault
  /\ importFailed = FALSE
  /\ context \in Contexts(MaxCtxMsgs)
  /\ lastQuery = NoQuery
  /\ priorDirty = FALSE
  /\ systemPrompt = NoSystemPrompt
  /\ streamOptions = NoStreamOptions
  /\ prevRun = NoRun
  /\ other = NoInvocation

\* one invocation for each system prompt and each stream options
InitOptions ==
  /\ toolPolicy \in {"suppress", "forward"}
  /\ resolvedQueryFn = "fn"
  /\ pc = "idle"
  /\ events = <<>>
  /\ endCalls = 0
  /\ accumulatedContent = <<>>
  /\ contentIndex = 0
  /\ currentUsage = createDefaultUsage
  /\ queryCalls = 0
  /\ consumed = <<>>
  /\ fault = NoFault
  /\ importFailed = FALSE
  /\ context = SingleTurnContext
  /\ lastQuery = NoQuery
  /\ priorDirty = FALSE
  /\ systemPrompt \in SystemPrompts
  /\ streamOptions \in StreamOptionsSet
  /\ prevRun = NoRun
  /\ other = NoInvocation

\* a stream function of the deployed build made without a query function: its
\* first invocation imports the SDK, a later one finds the query function resolved
InitReplay ==
  /\ toolPolicy = "suppress"
  /\ resolvedQueryFn = "null"
  /\ pc = "idle"
  /\ events = <<>>
  /\ endCalls = 0
  /\ accumulatedContent = <<>>
  /\ contentIndex = 0
  /\ currentUsage = createDefaultUsage
  /\ queryCalls = 0
  /\ consumed = <<>>
  /\ fault = NoFault
  /\ importFailed = FALSE
  /\ context = SingleTurnContext
  /\ lastQuery = NoQuery
  /\ priorDirty = FALSE
  /\ systemPrompt = NoSystemPrompt
  /\ streamOptions = NoStreamOptions
  /\ prevRun = NoRun
  /\ other = NoInvocation

\* two invocations of one stream function, the query function injected; the
\* second has been made and has not yet run
InitConcurrent ==
  /\ toolPolicy \in {"suppress", "forward"}
  /\ resolvedQueryFn = "fn"
  /\ pc = "idle"
  /\ events = <<>>
  /\ endCalls = 0
  /\ accumulatedContent = <<>>
  /\ contentIndex = 0
  /\ currentUsage = createDefaultUsage
  /\ queryCalls = 0
  /\ consumed = <<>>
  /\ fault = NoFault
  /\ importFailed = FALSE
  /\ context = SingleTurnContext
  /\ lastQuery = NoQuery
  /\ priorDirty = FALSE
  /\ systemPrompt = NoSystemPrompt
  /\ streamOptions = NoStreamOptions
  /\ prevRun = NoRun
  /\ other = [NoInvocation EXCEPT !.pc = "idle"]

(* ---------------- steps of the async body ---------------- *)
\* mutant: the error message is built on the accumulated content and the
\* running usage
CatchAndEndKeepsPartial(err) ==
  /\ events' = Append(events,
       [type |-> "error", reason |-> "error",
        error |-> createPartialMessage(
                    Append(accumulatedContent, [type |-> "text", text |-> ErrText(err)]),
                    currentUsage, ModelId)])
  /\ endCalls' = endCalls + 1
  /\ fault' = err
  /\ pc' = "finished"

\* the catch and finally clauses of the main try
CatchAndEnd(err) ==
  /\ events' = Append(events, ErrorEvent(ErrText(err), ModelId))
  /\ endCalls' = endCalls + 1
  /\ fault' = err
  /\ pc' = "finished"

\* mutant: the translation state is kept in the closure of the stream function,
\* so an invocation starts from what the one before left
CallQueryKeepState(thrown, err) ==
  /\ lastQuery' = QueryParams(thrown)
  /\ queryCalls' = queryCalls + 1
  /\ UNCHANGED <<accumulatedContent, contentIndex, currentUsage>>
  /\ IF thrown
       THEN CatchAndEnd(err)
       ELSE /\ events' = Append(events, StartEvent(currentUsage'))
            /\ pc' = "consuming"
            /\ UNCHANGED <<endCalls, fault>>

\* from building the prompt to the first suspension of the for-await loop;
\* thrown is TRUE when the query function throws when it is called
CallQuery(thrown, err) ==
  /\ lastQuery' = QueryParams(thrown)
  /\ queryCalls' = queryCalls + 1
  /\ accumulatedContent' = <<>>
  /\ contentIndex' = 0
  /\ currentUsage' = createDefaultUsage
  /\ IF thrown
       THEN CatchAndEnd(err)
       ELSE /\ events' = Append(events, StartEvent(currentUsage'))
            /\ pc' = "consuming"
            /\ UNCHANGED <<endCalls, fault>>

\* streamFn(model, context) with the query function already resolved
StreamFnResolved ==
  /\ pc = "idle"
  /\ resolvedQueryFn # "null"
  /\ \E thrown \in BOOLEAN, err \in Faults : CallQuery(thrown, err)
  /\ UNCHANGED <<toolPolicy, resolvedQueryFn, consumed, importFailed, context, priorDirty, systemPrompt,
                 streamOptions, prevRun, other>>

\* streamFn(model, context) with no query function: suspends at the import
StreamFnImport ==
  /\ pc = "idle"
  /\ resolvedQueryFn = "null"
  /\ pc' = "importing"
  /\ UNCHANGED <<toolPolicy, resolvedQueryFn, events, endCalls, accumulatedContent,
                 contentIndex, currentUsage, queryCalls, consumed, fault, importFailed,
                 context, lastQuery, priorDirty, systemPrompt,
                 streamOptions, prevRun, other>>

\* mutant: the imported query function is used but not kept in the closure
ImportOkNoMemo ==
  /\ pc = "importing"
  /\ \E thrown \in BOOLEAN, err \in Faults : CallQuery(thrown, err)
  /\ UNCHANGED <<toolPolicy, resolvedQueryFn, consumed, importFailed, context, priorDirty,
                 systemPrompt, streamOptions, prevRun, other>>

\* the import resolves: the body goes on to the query call
ImportOk ==
  /\ pc = "importing"
  /\ resolvedQueryFn' = "fn"
  /\ \E thrown \in BOOLEAN, err \in Faults : CallQuery(thrown, err)
  /\ UNCHANGED <<toolPolicy, consumed, importFailed, context, priorDirty, systemPrompt,
                 streamOptions, prevRun, other>>

\* mutant: the return after end() is lost, so the body goes on and calls null
ImportFailNoReturn ==
  /\ pc = "importing"
  /\ importFailed' = TRUE
  /\ events' = events \o <<ErrorEvent(SdkMissingText, ""),
                            ErrorEvent("resolvedQueryFn is not a function", ModelId)>>
  /\ endCalls' = endCalls + 2
  /\ pc' = "finished"
  /\ UNCHANGED <<toolPolicy, resolvedQueryFn, accumulatedContent, contentIndex,
                 currentUsage, queryCalls, consumed, fault, context, lastQuery, priorDirty, systemPrompt,
                 streamOptions, prevRun, other>>

\* the import rejects: one error event, end(), return
ImportFail ==
  /\ pc = "importing"
  /\ importFailed' = TRUE
  /\ events' = Append(events, ErrorEvent(SdkMissingText, ""))
  /\ endCalls' = endCalls + 1
  /\ pc' = "finished"
  /\ UNCHANGED <<toolPolicy, resolvedQueryFn, accumulatedContent, contentIndex,
                 currentUsage, queryCalls, consumed, fault, context, lastQuery, priorDirty, systemPrompt,
                 streamOptions, prevRun, other>>

\* the body of the for-await loop on an assistant message
OnAssistant(msg) ==
  /\ msg.type = "assistant"
  /\ LET st == IF msg.hasContent
                 THEN ProcessBlocks(St(events, accumulatedContent, contentIndex),
                                    msg.content, currentUsage, toolPolicy)
                 ELSE St(events, accumulatedContent, contentIndex)
     IN /\ events' = st.events
        /\ accumulatedContent' = st.acc
        /\ contentIndex' = st.idx
  /\ UNCHANGED currentUsage

\* mutant: counters the new usage does not supply keep their earlier value
OnResultMergeUsage(msg) ==
  /\ msg.type = "result"
  /\ LET u == msg.usage
         usage == IF u.present
                    THEN [input |-> Coalesce(u.input_tokens, currentUsage.input),
                          output |-> Coalesce(u.output_tokens, currentUsage.output),
                          cacheRead |-> Coalesce(u.cache_read_input_tokens, currentUsage.cacheRead),
                          cacheWrite |->
                            Coalesce(u.cache_creation_input_tokens, currentUsage.cacheWrite),
                          totalTokens |-> Coalesce(u.input_tokens, currentUsage.input)
                                            + Coalesce(u.output_tokens, currentUsage.output),
                          cost |-> ZeroCost]
                    ELSE currentUsage
     IN /\ currentUsage' = usage
        /\ events' = Append(events,
             DoneEvent(MapStopReason(msg.stop_reason, toolPolicy), accumulatedContent, usage))
  /\ UNCHANGED <<accumulatedContent, contentIndex>>

\* the body of the for-await loop on a result message
OnResult(msg) ==
  /\ msg.type = "result"
  /\ LET usage == IF msg.usage.present THEN UsageFromResult(msg.usage) ELSE currentUsage
     IN /\ currentUsage' = usage
        /\ events' = Append(events,
             DoneEvent(MapStopReason(msg.stop_reason, toolPolicy), accumulatedContent, usage))
  /\ UNCHANGED <<accumulatedContent, contentIndex>>

\* mutant: every message that is not an assistant message is taken for a result
OnOtherPushesDone(msg) ==
  /\ msg.type \notin {"assistant", "result"}
  /\ events' = Append(events, DoneEvent("stop", accumulatedContent, currentUsage))
  /\ UNCHANGED <<accumulatedContent, contentIndex, currentUsage>>

\* the body of the for-await loop on any other message
OnOther(msg) ==
  /\ msg.type \notin {"assistant", "result"}
  /\ UNCHANGED <<events, accumulatedContent, contentIndex, currentUsage>>

\* one turn of the for-await loop
ConsumeMsg(msg) ==
  /\ pc = "consuming"
  /\ OnAssistant(msg) \/ OnResult(msg) \/ OnOther(msg)
  /\ consumed' = Append(consumed, msg)
  /\ UNCHANGED <<toolPolicy, resolvedQueryFn, pc, endCalls, queryCalls, fault, importFailed,
                 context, lastQuery, priorDirty, systemPrompt,
                 streamOptions, prevRun, other>>

\* the upstream yields a message
Consume ==
  /\ Len(consumed) < MaxMsgs
  /\ \E msg \in Messages(MaxBlocks - BlockCount(consumed)) : ConsumeMsg(msg)

\* mutant: the finally clause is lost on the normal exit
UpstreamEndNoClose ==
  /\ pc = "consuming"
  /\ pc' = "finished"
  /\ UNCHANGED <<toolPolicy, resolvedQueryFn, events, endCalls, accumulatedContent,
                 contentIndex, currentUsage, queryCalls, consumed, fault, importFailed,
                 context, lastQuery, priorDirty, systemPrompt,
                 streamOptions, prevRun, other>>

\* mutant: a loop left without any done event pushes one before the close
UpstreamEndPushesDone ==
  /\ pc = "consuming"
  /\ events' = IF \E k \in 1..Len(events) : events[k].type = "done" THEN events
               ELSE Append(events, DoneEvent("stop", accumulatedContent, currentUsage))
  /\ endCalls' = endCalls + 1
  /\ pc' = "finished"
  /\ UNCHANGED <<toolPolicy, resolvedQueryFn, accumulatedContent, contentIndex,
                 currentUsage, queryCalls, consumed, fault, importFailed,
                 context, lastQuery, priorDirty, systemPrompt,
                 streamOptions, prevRun, other>>

\* the upstream is exhausted: the loop exits through finally
UpstreamEnd ==
  /\ pc = "consuming"
  /\ endCalls' = endCalls + 1
  /\ pc' = "finished"
  /\ UNCHANGED <<toolPolicy, resolvedQueryFn, events, accumulatedContent, contentIndex,
                 currentUsage, queryCalls, consumed, fault, importFailed,
                 context, lastQuery, priorDirty, systemPrompt,
                 streamOptions, prevRun, other>>

\* mutant: after a fault the query function is called again
UpstreamFaultRetry ==
  /\ pc = "consuming"
  /\ queryCalls < 2
  /\ queryCalls' = queryCalls + 1
  /\ events' = Append(events, StartEvent(currentUsage))
  /\ UNCHANGED <<toolPolicy, resolvedQueryFn, pc, endCalls, accumulatedContent, contentIndex,
                 currentUsage, consumed, fault, importFailed, context, lastQuery, priorDirty,
                 systemPrompt, streamOptions, prevRun, other>>

\* the upstream throws while it is consumed
UpstreamFault ==
  /\ pc = "consuming"
  /\ \E err \in Faults : CatchAndEnd(err)
  /\ UNCHANGED <<toolPolicy, resolvedQueryFn, accumulatedContent, contentIndex,
                 currentUsage, queryCalls, consumed, importFailed,
                 context, lastQuery, priorDirty, systemPrompt,
                 streamOptions, prevRun, other>>

Next ==
  \/ StreamFnResolved
  \/ StreamFnImport
  \/ ImportOk
  \/ ImportFail
  \/ Consume
  \/ UpstreamEnd
  \/ UpstreamFault

Spec == Init /\ [][Next]_vars

\* the prompt builder applied to every context: the invocation up to the query call
NextPrompt == StreamFnResolved

SpecPrompt == InitPrompt /\ [][NextPrompt]_vars

SpecRoundTrip == InitRoundTrip /\ [][NextPrompt]_vars

SpecTurns == InitTurns /\ [][NextPrompt]_vars

\* the stream function is called again once the invocation before has finished:
\* a new event stream, and the locals of the finished body are out of reach
\* (they still hold their last values until the new body declares its own)
StreamFnAgain ==
  /\ pc = "finished"
  /\ pc' = "idle"
  /\ events' = <<>>
  /\ endCalls' = 0
  /\ queryCalls' = 0
  /\ consumed' = <<>>
  /\ fault' = NoFault
  /\ importFailed' = FALSE
  /\ priorDirty' = (priorDirty \/ (accumulatedContent # <<>> /\ currentUsage.input > 0))
  /\ context' \in {SingleTurnContext, MultiTurnContext}
  /\ UNCHANGED <<toolPolicy, resolvedQueryFn, accumulatedContent, contentIndex,
                 currentUsage, lastQuery, systemPrompt, streamOptions, prevRun, other>>

NextSequential == Next \/ StreamFnAgain

\* what prevRun keeps of the invocation that has just finished
FinishedRun ==
  [finished |-> TRUE, events |-> events, consumed |-> consumed, fault |-> fault,
   importFailed |-> importFailed, query |-> lastQuery, streamOptions |-> streamOptions]

\* the stream function is called again with another system prompt and other
\* stream options
StreamFnAgainWith ==
  /\ pc = "finished"
  /\ pc' = "idle"
  /\ prevRun' = FinishedRun
  /\ events' = <<>>
  /\ endCalls' = 0
  /\ queryCalls' = 0
  /\ consumed' = <<>>
  /\ fault' = NoFault
  /\ importFailed' = FALSE
  /\ lastQuery' = NoQuery
  /\ systemPrompt' \in SystemPrompts
  /\ streamOptions' \in StreamOptionsSet
  /\ UNCHANGED <<toolPolicy, resolvedQueryFn, accumulatedContent, contentIndex,
                 currentUsage, context, priorDirty, other>>

\* the stream function is called a second time, to be given the inputs of the
\* first invocation again
StreamFnReplay ==
  /\ pc = "finished"
  /\ ~prevRun.finished
  /\ pc' = "idle"
  /\ prevRun' = FinishedRun
  /\ events' = <<>>
  /\ endCalls' = 0
  /\ queryCalls' = 0
  /\ consumed' = <<>>
  /\ fault' = NoFault
  /\ importFailed' = FALSE
  /\ lastQuery' = NoQuery
  /\ UNCHANGED <<toolPolicy, resolvedQueryFn, accumulatedContent, contentIndex,
                 currentUsage, context, priorDirty, systemPrompt, streamOptions, other>>

\* the environment of the second invocation behaves as it did for the first:
\* the import fails or not, the query throws or not, the upstream yields the
\* same messages and ends or throws at the same place
FollowsPrev ==
  /\ importFailed => prevRun.importFailed
  /\ lastQuery.called =>
       /\ prevRun.query.called
       /\ lastQuery.threw = prevRun.query.threw
       /\ lastQuery.threw => fault = prevRun.fault
  /\ (pc = "finished") =>
       /\ consumed = prevRun.consumed
       /\ fault = prevRun.fault
       /\ importFailed = prevRun.importFailed

ReplayStep ==
  /\ prevRun.finished
  /\ StreamFnResolved \/ StreamFnImport \/ ImportOk \/ ImportFail \/ UpstreamEnd \/ UpstreamFault
  /\ FollowsPrev'

ReplayConsume ==
  /\ prevRun.finished
  /\ Len(consumed) < Len(prevRun.consumed)
  /\ ConsumeMsg(prevRun.consumed[Len(consumed) + 1])

FirstRun == ~prevRun.finished /\ Next

NextReplay == FirstRun \/ StreamFnReplay \/ ReplayStep \/ ReplayConsume

SpecReplay == InitReplay /\ [][NextReplay]_vars

\* the upstream messages of two invocations in flight together
ConcurrentMessages ==
  {AssistantMsg(TRUE, <<TextBlock("a")>>),
   AssistantMsg(TRUE, <<TextBlock("b"), ToolUseBlock>>),
   ResultMsg("max_tokens", FullUsage),
   ResultMsg("tool_use", NoUsage),
   SystemMsg}

\* the two upstreams together deliver at most MaxMsgs + 1 messages
MayConsume == Len(consumed) + Len(other.consumed) <= MaxMsgs

\* the upstream of the first invocation yields a message
FirstConsume ==
  /\ MayConsume
  /\ \E msg \in ConcurrentMessages : ConsumeMsg(msg)

\* a step of the first invocation while the second is in flight
FirstInvocationStep == StreamFnResolved \/ FirstConsume \/ UpstreamEnd \/ UpstreamFault

\* the second invocation runs up to the first suspension of its loop
OtherStart ==
  /\ other.pc = "idle"
  /\ resolvedQueryFn # "null"
  /\ other' = StartedInvocation
  /\ UNCHANGED <<toolPolicy, resolvedQueryFn, pc, events, endCalls, accumulatedContent,
                 contentIndex, currentUsage, queryCalls, consumed, fault, importFailed,
                 context, lastQuery, priorDirty, systemPrompt, streamOptions, prevRun>>

\* mutant: accumulated content, index and usage live in the closure of the stream
\* function, so the second invocation works on those of the first
OtherConsumeShared ==
  /\ other.pc = "consuming"
  /\ pc = "consuming"
  /\ MayConsume
  /\ \E msg \in ConcurrentMessages :
       LET turn == LoopTurn([other EXCEPT !.accumulatedContent = accumulatedContent,
                                          !.contentIndex = contentIndex,
                                          !.currentUsage = currentUsage],
                            msg, toolPolicy)
       IN /\ other' = turn
          /\ accumulatedContent' = turn.accumulatedContent
          /\ contentIndex' = turn.contentIndex
          /\ currentUsage' = turn.currentUsage
  /\ UNCHANGED <<toolPolicy, resolvedQueryFn, pc, events, endCalls, queryCalls, consumed,
                 fault, importFailed, context, lastQuery, priorDirty, systemPrompt,
                 streamOptions, prevRun>>

\* the upstream of the second invocation yields a message
OtherConsume ==
  /\ other.pc = "consuming"
  /\ MayConsume
  /\ \E msg \in ConcurrentMessages :
       other' = LoopTurn(other, msg, toolPolicy)
  /\ UNCHANGED <<toolPolicy, resolvedQueryFn, pc, events, endCalls, accumulatedContent,
                 contentIndex, currentUsage, queryCalls, consumed, fault, importFailed,
                 context, lastQuery, priorDirty, systemPrompt, streamOptions, prevRun>>

\* the upstream of the second invocation is exhausted
OtherEnd ==
  /\ other.pc = "consuming"
  /\ other' = [other EXCEPT !.pc = "finished"]
  /\ UNCHANGED <<toolPolicy, resolvedQueryFn, pc, events, endCalls, accumulatedContent,
                 contentIndex, currentUsage, queryCalls, consumed, fault, importFailed,
                 context, lastQuery, priorDirty, systemPrompt, streamOptions, prevRun>>

NextConcurrent == FirstInvocationStep \/ OtherStart \/ OtherConsume \/ OtherEnd

SpecConcurrent == InitConcurrent /\ [][NextConcurrent]_vars

NextOptions == StreamFnResolved \/ UpstreamEnd \/ StreamFnAgainWith

SpecOptions == InitOptions /\ [][NextOptions]_vars

SpecSequential == Init /\ [][NextSequential]_vars

(* ---------------- the end of the upstream, step by step ---------------- *)
\* the upstream yields one of a few messages
LiveConsume ==
  /\ Len(consumed) < MaxMsgs
  /\ \E msg \in ConcurrentMessages : ConsumeMsg(msg)

\* the iterator of the upstream reports that it is exhausted; the for-await
\* loop has not yet resumed
UpstreamDone ==
  /\ pc = "consuming"
  /\ pc' = "ended"
  /\ UNCHANGED <<toolPolicy, resolvedQueryFn, events, endCalls, accumulatedContent,
                 contentIndex, currentUsage, queryCalls, consumed, fault, importFailed,
                 context, lastQuery, priorDirty, systemPrompt,
                 streamOptions, prevRun, other>>

\* the iterator of the upstream rejects; the for-await loop has not yet resumed
UpstreamThrows ==
  /\ pc = "consuming"
  /\ pc' = "faulted"
  /\ fault' \in Faults
  /\ UNCHANGED <<toolPolicy, resolvedQueryFn, events, endCalls, accumulatedContent,
                 contentIndex, currentUsage, queryCalls, consumed, importFailed,
                 context, lastQuery, priorDirty, systemPrompt,
                 streamOptions, prevRun, other>>

\* mutant: the loop is left without the finally clause
LoopExitNoClose ==
  /\ pc = "ended"
  /\ pc' = "finished"
  /\ UNCHANGED <<toolPolicy, resolvedQueryFn, events, endCalls, accumulatedContent,
                 contentIndex, currentUsage, queryCalls, consumed, fault, importFailed,
                 context, lastQuery, priorDirty, systemPrompt,
                 streamOptions, prevRun, other>>

\* the body resumes after the exhaustion: the loop is left through finally
LoopExit ==
  /\ pc = "ended"
  /\ endCalls' = endCalls + 1
  /\ pc' = "finished"
  /\ UNCHANGED <<toolPolicy, resolvedQueryFn, events, accumulatedContent, contentIndex,
                 currentUsage, queryCalls, consumed, fault, importFailed,
                 context, lastQuery, priorDirty, systemPrompt,
                 streamOptions, prevRun, other>>

\* the body resumes after the rejection: catch, then finally
CatchFault ==
  /\ pc = "faulted"
  /\ CatchAndEnd(fault)
  /\ UNCHANGED <<toolPolicy, resolvedQueryFn, accumulatedContent, contentIndex,
                 currentUsage, queryCalls, consumed, importFailed,
                 context, lastQuery, priorDirty, systemPrompt,
                 streamOptions, prevRun, other>>

NextLive ==
  \/ StreamFnResolved
  \/ StreamFnImport
  \/ ImportOk
  \/ ImportFail
  \/ LiveConsume
  \/ UpstreamDone
  \/ UpstreamThrows
  \/ LoopExit
  \/ CatchFault

\* a continuation of the async body that is ready to run is run by the event
\* loop; the upstream itself is under no obligation
SpecLive == Init /\ [][NextLive]_vars /\ WF_vars(LoopExit) /\ WF_vars(CatchFault)

(* ---------------- two invocations racing on the resolution ---------------- *)
\* the second invocation before it runs, with what it has done so far:
\* queryCalls counts its calls of the query function, imported and importFailed
\* tell whether it has awaited the import and whether the import was rejected
IdleSecond ==
  [pc |-> "idle", events |-> <<>>, accumulatedContent |-> <<>>, contentIndex |-> 0,
   currentUsage |-> createDefaultUsage, consumed |-> <<>>,
   queryCalls |-> 0, imported |-> FALSE, importFailed |-> FALSE]

\* the second invocation after its query call and its start push
SecondStarted(inv) ==
  [inv EXCEPT !.pc = "consuming",
              !.events = <<StartEvent(createDefaultUsage)>>,
              !.queryCalls = inv.queryCalls + 1]

\* a stream function created without a query function, called twice
InitResolve ==
  /\ toolPolicy \in {"suppress", "forward"}
  /\ resolvedQueryFn = "null"
  /\ pc = "idle"
  /\ events = <<>>
  /\ endCalls = 0
  /\ accumulatedContent = <<>>
  /\ contentIndex = 0
  /\ currentUsage = createDefaultUsage
  /\ queryCalls = 0
  /\ consumed = <<>>
  /\ fault = NoFault
  /\ importFailed = FALSE
  /\ context = SingleTurnContext
  /\ lastQuery = NoQuery
  /\ priorDirty = FALSE
  /\ systemPrompt = NoSystemPrompt
  /\ streamOptions = NoStreamOptions
  /\ prevRun = NoRun
  /\ other = IdleSecond

\* the stream function is called once more after the first invocation has finished
StreamFnNext ==
  /\ pc = "finished"
  /\ pc' = "idle"
  /\ events' = <<>>
  /\ endCalls' = 0
  /\ queryCalls' = 0
  /\ consumed' = <<>>
  /\ fault' = NoFault
  /\ importFailed' = FALSE
  /\ lastQuery' = NoQuery
  /\ UNCHANGED <<toolPolicy, resolvedQueryFn, accumulatedContent, contentIndex,
                 currentUsage, context, priorDirty, systemPrompt, streamOptions,
                 prevRun, other>>

\* the second invocation finds no query function and suspends at the import
SecondImport ==
  /\ other.pc = "idle"
  /\ resolvedQueryFn = "null"
  /\ other' = [other EXCEPT !.pc = "importing", !.imported = TRUE]
  /\ UNCHANGED <<toolPolicy, resolvedQueryFn, pc, events, endCalls, accumulatedContent,
                 contentIndex, currentUsage, queryCalls, consumed, fault, importFailed,
                 context, lastQuery, priorDirty, systemPrompt, streamOptions, prevRun>>

\* the import of the second invocation resolves: it assigns the closure variable
\* and goes on to its query call
SecondImportOk ==
  /\ other.pc = "importing"
  /\ resolvedQueryFn' = "fn"
  /\ other' = SecondStarted(other)
  /\ UNCHANGED <<toolPolicy, pc, events, endCalls, accumulatedContent,
                 contentIndex, currentUsage, queryCalls, consumed, fault, importFailed,
                 context, lastQuery, priorDirty, systemPrompt, streamOptions, prevRun>>

\* the import of the second invocation rejects: one error event, end(), return
SecondImportFail ==
  /\ other.pc = "importing"
  /\ other' = [other EXCEPT !.pc = "finished", !.importFailed = TRUE,
                            !.events = <<ErrorEvent(SdkMissingText, "")>>]
  /\ UNCHANGED <<toolPolicy, resolvedQueryFn, pc, events, endCalls, accumulatedContent,
                 contentIndex, currentUsage, queryCalls, consumed, fault, importFailed,
                 context, lastQuery, priorDirty, systemPrompt, streamOptions, prevRun>>

\* the second invocation finds the query function resolved
SecondResolved ==
  /\ other.pc = "idle"
  /\ resolvedQueryFn # "null"
  /\ other' = SecondStarted(other)
  /\ UNCHANGED <<toolPolicy, resolvedQueryFn, pc, events, endCalls, accumulatedContent,
                 contentIndex, currentUsage, queryCalls, consumed, fault, importFailed,
                 context, lastQuery, priorDirty, systemPrompt, streamOptions, prevRun>>

\* the upstream of the second invocation yields a message
SecondConsume ==
  /\ other.pc = "consuming"
  /\ MayConsume
  /\ \E msg \in ConcurrentMessages :
       LET turn == LoopTurn(other, msg, toolPolicy)
       IN other' = [other EXCEPT !.events = turn.events,
                                 !.accumulatedContent = turn.accumulatedContent,
                                 !.contentIndex = turn.contentIndex,
                                 !.currentUsage = turn.currentUsage,
                                 !.consumed = turn.consumed]
  /\ UNCHANGED <<toolPolicy, resolvedQueryFn, pc, events, endCalls, accumulatedContent,
                 contentIndex, currentUsage, queryCalls, consumed, fault, importFailed,
                 context, lastQuery, priorDirty, systemPrompt, streamOptions, prevRun>>

NextResolve ==
  \/ StreamFnResolved
  \/ StreamFnImport
  \/ ImportOk
  \/ ImportFail
  \/ FirstConsume
  \/ UpstreamEnd
  \/ UpstreamFault
  \/ StreamFnNext
  \/ SecondImport
  \/ SecondImportOk
  \/ SecondImportFail
  \/ SecondResolved
  \/ SecondConsume
  \/ OtherEnd

SpecResolve == InitResolve /\ [][NextResolve]_vars

(* ---------------- vocabulary of the properties ---------------- *)
IsTerminal(e) == e.type \in {"done", "error"}

IsBlockStart(e) == e.type \in {"text_start", "toolcall_start"}

IsBlockEvent(e) ==
  e.type \in {"text_start", "text_delta", "text_end", "toolcall_start", "toolcall_end"}

\* positions of the events of a sequence that satisfy a test
Positions(evs, Test(_)) == {i \in 1..Len(evs) : Test(evs[i])}

IsError(e) == e.type = "error"

IsStart(e) == e.type = "start"

IsTextDelta(e) == e.type = "text_delta"

IsToolCallEvent(e) == e.type \in {"toolcall_start", "toolcall_end"}

\* the blocks of the consumed assistant messages, in upstream order
RECURSIVE UpstreamBlocks(_)
UpstreamBlocks(msgs) ==
  IF msgs = <<>> THEN <<>>
  ELSE (IF Head(msgs).type = "assistant" THEN Head(msgs).content ELSE <<>>)
         \o UpstreamBlocks(Tail(msgs))

IsTextBlock(b) == b.type = "text"

UpstreamTextBlocks == SelectSeq(UpstreamBlocks(consumed), IsTextBlock)

\* concatenation of the strings of a sequence
RECURSIVE Concat(_)
Concat(strs) == IF strs = <<>> THEN "" ELSE Head(strs) \o Concat(Tail(strs))

TextDeltas == SelectSeq(events, IsTextDelta)

(* ---------------- C1 ---------------- *)
\* C1: once the downstream sequence is closed, its last emitted event is done or error.
\* The adapter pushes done only on a result message: an upstream that ends without one
\* closes the sequence after start or after a block event.
C1_LastEventTerminal ==
  endCalls >= 1 => (events # <<>> /\ IsTerminal(events[Len(events)]))

(* ---------------- C2 ---------------- *)
\* C2: at most one terminal event is emitted and no event follows it.  The loop goes on
\* after pushing done, so later messages and faults push further events.
C2_NothingAfterTerminal ==
  \A i \in 1..Len(events) : IsTerminal(events[i]) => i = Len(events)

(* ---------------- C3 ---------------- *)
\* C3: when the query capability is available, the first emitted event is start,
\* also when the query fails at the moment it is invoked.  The query is called before
\* start is pushed, inside the try: a throwing call yields error as the first event.
C3_FirstEventStart ==
  (queryCalls >= 1 /\ events # <<>>) => events[1].type = "start"

(* ---------------- C4 ---------------- *)
\* C4: when no query function is injected and the import fails, the invocation emits
\* exactly one event, an error whose text names the missing SDK, never calls the
\* query, emits no start, and closes the downstream sequence.
C4_ImportFailureSoleError ==
  importFailed =>
    /\ pc = "finished"
    /\ Len(events) = 1
    /\ events[1].type = "error"
    /\ events[1].error.content =
         <<[type |-> "text",
            text |-> "CodeBuddy SDK not found. Install it with: pnpm add @tencent-ai/agent-sdk"]>>
    /\ Positions(events, IsStart) = {}
    /\ queryCalls = 0
    /\ endCalls = 1

C4_Witness ==
  /\ importFailed
  /\ pc = "finished"
  /\ Len(events) = 1
  /\ endCalls = 1

(* ---------------- C5 ---------------- *)
\* C5: the downstream sequence is closed exactly once: never twice, and once the
\* async body has finished (upstream exhausted, upstream fault, import failed) it
\* has been closed.
C5_ClosedExactlyOnce ==
  /\ endCalls <= 1
  /\ pc = "finished" => endCalls = 1

C5_Witness ==
  /\ pc = "finished"
  /\ fault = NoFault
  /\ ~importFailed
  /\ Len(consumed) = MaxMsgs
  /\ endCalls = 1

(* ---------------- C6 ---------------- *)
\* C6: when the upstream raises a fault, exactly one error event is emitted, its text
\* is the fault's message, it is appended to the events emitted before the fault,
\* which stay as they were, and the query is not called again.
C6_FaultAppendsOneError ==
  [][(fault = NoFault /\ fault' # NoFault) =>
       /\ Len(events') = Len(events) + 1
       /\ SubSeq(events', 1, Len(events)) = events
       /\ events'[Len(events')].type = "error"
       /\ events'[Len(events')].error.content =
            <<[type |-> "text",
               text |-> IF fault' = ErrorBoom THEN "boom" ELSE "plain"]>>
       /\ Cardinality(Positions(events', IsError)) = 1
       /\ queryCalls' = 1
       /\ pc' = "finished"]_vars

C6_Witness ==
  /\ fault = ErrorBoom
  /\ Len(consumed) >= 1
  /\ Len(events) >= 5
  /\ events[Len(events)].type = "error"
  /\ events[Len(events) - 1].type = "text_end"

(* ---------------- C7 ---------------- *)
\* C7: the content indices of the block events run 0, 1, 2, ...: the k-th emitted
\* block (text or tool, counted together) carries index k-1 on all of its events,
\* and the next index is the number of blocks emitted, so a skipped block takes none.
C7_IndicesSequential ==
  /\ \A i \in 1..Len(events) :
       IsBlockEvent(events[i]) =>
         events[i].contentIndex = Cardinality({j \in 1..i : IsBlockStart(events[j])}) - 1
  /\ contentIndex = Cardinality(Positions(events, IsBlockStart))

C7_Witness ==
  /\ toolPolicy = "forward"
  /\ Len(consumed) = 2
  /\ \E i \in 1..Len(events) : events[i].type = "text_end" /\ events[i].contentIndex = 0
  /\ \E i \in 1..Len(events) : events[i].type = "toolcall_end" /\ events[i].contentIndex = 1
  /\ contentIndex = 2

(* ---------------- C8 ---------------- *)
\* C8: every upstream text block produces exactly three consecutive events,
\* text_start, text_delta, text_end, with one content index; no state exists in
\* which the triple is incomplete; the delta and the content are the block's text.
C8_TextBlockTriple ==
  /\ \A i \in 1..Len(events) :
       /\ events[i].type = "text_start" =>
            /\ i + 2 <= Len(events)
            /\ events[i + 1].type = "text_delta"
            /\ events[i + 2].type = "text_end"
            /\ events[i + 1].contentIndex = events[i].contentIndex
            /\ events[i + 2].contentIndex = events[i].contentIndex
       /\ events[i].type = "text_delta" => (i > 1 /\ events[i - 1].type = "text_start")
       /\ events[i].type = "text_end" => (i > 1 /\ events[i - 1].type = "text_delta")
  /\ Len(TextDeltas) = Len(UpstreamTextBlocks)
  /\ \A k \in 1..Len(TextDeltas) :
       LET i == CHOOSE j \in 1..Len(events) :
                  /\ events[j].type = "text_delta"
                  /\ Cardinality({h \in 1..j : events[h].type = "text_delta"}) = k
       IN /\ events[i].delta = UpstreamTextBlocks[k].text
          /\ events[i + 1].content = UpstreamTextBlocks[k].text

C8_Witness ==
  /\ Len(UpstreamTextBlocks) = 2
  /\ UpstreamTextBlocks[1].text # UpstreamTextBlocks[2].text
  /\ Len(TextDeltas) = 2
  /\ events[Len(events)].type = "text_end"

(* ---------------- C9 ---------------- *)
\* C9: when the upstream so far consists of assistant messages with text blocks
\* only, the concatenation of the text_delta deltas, in emission order, equals the
\* concatenation of the block texts in upstream order.
OnlyTextAssistant(m) ==
  /\ m.type = "assistant"
  /\ m.hasContent
  /\ \A k \in 1..Len(m.content) : m.content[k].type = "text"

C9_DeltaConcatenation ==
  (\A n \in 1..Len(consumed) : OnlyTextAssistant(consumed[n])) =>
    Concat([k \in 1..Len(TextDeltas) |-> TextDeltas[k].delta])
      = Concat([k \in 1..Len(UpstreamTextBlocks) |-> UpstreamTextBlocks[k].text])

C9_Witness ==
  /\ Len(consumed) = 1
  /\ OnlyTextAssistant(consumed[1])
  /\ Len(consumed[1].content) = 2
  /\ Concat([k \in 1..Len(TextDeltas) |-> TextDeltas[k].delta]) = "ab"

(* ---------------- C10 ---------------- *)
\* C10: under the tool-suppressing policy no toolcall_start or toolcall_end is ever
\* emitted; tool_use blocks add no item to the accumulated content and take no
\* content index, while the text blocks around them are translated.
C10_ToolUseSuppressed ==
  toolPolicy = "suppress" =>
    /\ Positions(events, IsToolCallEvent) = {}
    /\ accumulatedContent =
         [k \in 1..Len(UpstreamTextBlocks) |->
            [type |-> "text", text |-> UpstreamTextBlocks[k].text]]
    /\ contentIndex = Len(UpstreamTextBlocks)
    /\ Len(TextDeltas) = Len(UpstreamTextBlocks)

C10_Witness ==
  /\ toolPolicy = "suppress"
  /\ Len(consumed) = 1
  /\ consumed[1].type = "assistant"
  /\ consumed[1].content = <<ToolUseBlock, TextBlock("a")>>
  /\ Len(events) = 4
  /\ events[4].type = "text_end"
  /\ contentIndex = 1

(* ---------------- done events and result messages ---------------- *)
IsDone(e) == e.type = "done"

IsResult(m) == m.type = "result"

ResultPos == Positions(consumed, IsResult)

DonePos == Positions(events, IsDone)

\* the k-th smallest element of a set of numbers
Nth(S, k) == CHOOSE x \in S : Cardinality({y \in S : y <= x}) = k

\* the done event pushed for the result message at position p of the upstream
DoneOfResult(p) == events[Nth(DonePos, Cardinality({q \in ResultPos : q <= p}))]

\* the step that consumes one more upstream message
ConsumeStep == Len(consumed') = Len(consumed) + 1

ZeroIfAbsent(x) == IF x = Absent THEN 0 ELSE x

\* the four token counters of a usage, in the order input, output, cacheRead, cacheWrite
Counters(usage) == <<usage.input, usage.output, usage.cacheRead, usage.cacheWrite>>

\* the same four counters as a result message supplies them
Supplied(u) ==
  <<ZeroIfAbsent(u.input_tokens), ZeroIfAbsent(u.output_tokens),
    ZeroIfAbsent(u.cache_read_input_tokens), ZeroIfAbsent(u.cache_creation_input_tokens)>>

TextItems(blocks) ==
  LET ts == SelectSeq(blocks, IsTextBlock)
  IN [k \in 1..Len(ts) |-> [type |-> "text", text |-> ts[k].text]]

(* ---------------- C11 ---------------- *)
\* C11: under the tool-suppressing policy every result message yields a done event
\* whose reason is length for stop reason max_tokens and stop for every other value
\* (tool_use and the absent one included), never toolUse, and the done message's
\* stopReason equals the reason.
C11_StopReasonSuppress ==
  toolPolicy = "suppress" =>
    /\ Cardinality(DonePos) = Cardinality(ResultPos)
    /\ \A p \in ResultPos :
         /\ DoneOfResult(p).reason =
              (IF consumed[p].stop_reason = "max_tokens" THEN "length" ELSE "stop")
         /\ DoneOfResult(p).reason # "toolUse"
         /\ DoneOfResult(p).message.stopReason = DoneOfResult(p).reason

C11_Witness ==
  /\ toolPolicy = "suppress"
  /\ Len(consumed) = 2
  /\ consumed[1].type = "result" /\ consumed[1].stop_reason = "tool_use"
  /\ consumed[2].type = "result" /\ consumed[2].stop_reason = "max_tokens"
  /\ events[2].type = "done" /\ events[2].reason = "stop"
  /\ events[3].type = "done" /\ events[3].reason = "length"

(* ---------------- C12 ---------------- *)
\* C12: under both policies a tool_result block produces no event and leaves the
\* accumulated content, the content index and the usage as they are: a message of
\* tool_result blocks changes nothing, and in every state the emitted blocks and the
\* accumulated items are exactly the text blocks (and, when forwarding, the tool_use
\* blocks) of the upstream.
OnlyToolResults(m) ==
  /\ m.type = "assistant"
  /\ Len(m.content) >= 1
  /\ \A k \in 1..Len(m.content) : m.content[k].type = "tool_result"

IsToolUseBlock(b) == b.type = "tool_use"

TranslatedBlockCount ==
  Len(UpstreamTextBlocks)
    + (IF toolPolicy = "forward"
         THEN Len(SelectSeq(UpstreamBlocks(consumed), IsToolUseBlock)) ELSE 0)

C12_ToolResultInert ==
  /\ [](/\ Cardinality(Positions(events, IsBlockStart)) = TranslatedBlockCount
        /\ Len(accumulatedContent) = TranslatedBlockCount
        /\ contentIndex = TranslatedBlockCount)
  /\ [][(ConsumeStep /\ OnlyToolResults(consumed'[Len(consumed')])) =>
          UNCHANGED <<events, accumulatedContent, contentIndex, currentUsage>>]_vars

C12_Witness ==
  /\ Len(consumed) = 2
  /\ consumed[1].type = "assistant" /\ consumed[1].content = <<TextBlock("a")>>
  /\ OnlyToolResults(consumed[2])
  /\ Len(events) = 4
  /\ contentIndex = 1

(* ---------------- C13 ---------------- *)
\* C13: an upstream message of type system or of any unrecognized type produces no
\* event and leaves accumulated content, content index and usage as they are,
\* wherever it comes in the sequence.
C13_SystemOtherInert ==
  [][(ConsumeStep /\ consumed'[Len(consumed')].type \notin {"assistant", "result"}) =>
       UNCHANGED <<events, accumulatedContent, contentIndex, currentUsage>>]_vars

C13_Witness ==
  /\ Len(consumed) = 2
  /\ consumed[1].type = "result" /\ consumed[1].usage = FullUsage
  /\ consumed[2] = OtherMsg
  /\ Len(events) = 2
  /\ currentUsage.input = 10

(* ---------------- C14 ---------------- *)
\* C14: the usage of every done event is the remapped usage of the latest result
\* message, up to and including the one it is pushed for, that carried usage, and
\* all zero when there is none.
C14_DoneUsageLatestResult ==
  /\ Cardinality(DonePos) = Cardinality(ResultPos)
  /\ \A p \in ResultPos :
       LET withUsage == {q \in ResultPos : q <= p /\ consumed[q].usage.present}
       IN Counters(DoneOfResult(p).message.usage) =
            (IF withUsage = {} THEN <<0, 0, 0, 0>>
             ELSE Supplied(consumed[Nth(withUsage, Cardinality(withUsage))].usage))

C14_Witness ==
  /\ Len(consumed) = 2
  /\ consumed[1].type = "result" /\ consumed[1].usage = PartialUsage
  /\ consumed[2].type = "result" /\ consumed[2].usage = FullUsage
  /\ Counters(events[2].message.usage) = <<0, 7, 0, 0>>
  /\ Counters(events[3].message.usage) = <<10, 5, 8, 2>>

(* ---------------- C15 ---------------- *)
\* C15: for every result message without usage data, the done event pushed for it
\* has all usage counters zero, wherever the message comes in the upstream.  A result
\* without usage that follows one with usage gets the earlier counters.
C15_NoUsageDoneZero ==
  \A p \in ResultPos :
    ~consumed[p].usage.present =>
      /\ Counters(DoneOfResult(p).message.usage) = <<0, 0, 0, 0>>
      /\ DoneOfResult(p).message.usage.totalTokens = 0

(* ---------------- C16 ---------------- *)
\* C16: a result message with usage data replaces the running counters as a whole:
\* each counter is the supplied value, or zero when the message does not supply it,
\* whatever the counters were.
C16_UsageReplacedWholesale ==
  [][(ConsumeStep /\ consumed'[Len(consumed')].type = "result"
        /\ consumed'[Len(consumed')].usage.present) =>
       Counters(currentUsage') = Supplied(consumed'[Len(consumed')].usage)]_vars

C16_Witness ==
  /\ Len(consumed) = 2
  /\ consumed[1].type = "result" /\ consumed[1].usage = FullUsage
  /\ consumed[2].type = "result" /\ consumed[2].usage = PartialUsage
  /\ Counters(currentUsage) = <<0, 7, 0, 0>>

(* ---------------- C17 ---------------- *)
\* C17: under the tool-suppressing policy the content of a done event's message is
\* the sequence of text items of the text blocks of the assistant messages received
\* before its result message, in upstream order, and nothing else.
C17_DoneContentSuppress ==
  toolPolicy = "suppress" =>
    /\ Cardinality(DonePos) = Cardinality(ResultPos)
    /\ \A p \in ResultPos :
         DoneOfResult(p).message.content =
           TextItems(UpstreamBlocks(SubSeq(consumed, 1, p - 1)))

C17_Witness ==
  /\ toolPolicy = "suppress"
  /\ Len(consumed) = 2
  /\ consumed[1].type = "assistant"
  /\ consumed[1].content = <<TextBlock("b"), ToolUseBlock>>
  /\ consumed[2].type = "result"
  /\ events[Len(events)].type = "done"
  /\ events[Len(events)].message.content = <<[type |-> "text", text |-> "b"]>>



(* ---------------- start event, prompt ---------------- *)
\* C18: the start event carries an empty content list and zero usage, whatever
\* the context and whatever an earlier invocation of the same stream function
\* left behind.
C18_StartEmptyZero ==
  \A i \in 1..Len(events) :
    IsStart(events[i]) =>
      /\ events[i].partial.content = <<>>
      /\ Counters(events[i].partial.usage) = <<0, 0, 0, 0>>
      /\ events[i].partial.usage.totalTokens = 0
      /\ events[i].partial.usage.cost = ZeroCost

\* a second invocation has pushed its start event after one that ended with
\* content accumulated and usage set, on a context with history
C18_Witness ==
  /\ priorDirty
  /\ context = MultiTurnContext
  /\ pc = "consuming"
  /\ Len(events) = 1
  /\ IsStart(events[1])

\* position of the last user message of the context, 0 when there is none
LastUserPos ==
  LET users == {i \in 1..Len(context) : context[i].role = "user"}
  IN IF users = {} THEN 0 ELSE CHOOSE i \in users : \A j \in users : j <= i

\* extracted text of the last user message, empty when there is none
ExtractedLast ==
  IF LastUserPos = 0 THEN <<>> ELSE extractTextFromContent(context[LastUserPos].content)

\* positions before the last user message that hold a user or assistant message
\* with a non-empty extracted text
HistoryPositions ==
  {i \in 1..(LastUserPos - 1) :
     /\ context[i].role \in {"user", "assistant"}
     /\ extractTextFromContent(context[i].content) # <<>>}

\* the prompt has the frame of the wrapped form
IsWrapped(prompt) ==
  /\ Len(prompt) >= 10
  /\ SubSeq(prompt, 1, 2) = <<HistOpen, NL>>
  /\ SubSeq(prompt, Len(prompt) - 1, Len(prompt)) = <<NL, CurClose>>
  /\ \E k \in 3..(Len(prompt) - 7) :
       SubSeq(prompt, k, k + 5) = <<NL, HistClose, NL, NL, CurOpen, NL>>

HistoryInPrompt == toolPolicy = "suppress" /\ lastQuery.called

\* C19 as stated: the prompt is wrapped exactly when at least one message
\* precedes the last user message; otherwise it is the extracted text of the
\* last user message.
C19_WrappedIffPreceded ==
  HistoryInPrompt =>
    /\ IsWrapped(lastQuery.prompt) <=> (LastUserPos > 1)
    /\ (LastUserPos <= 1) => lastQuery.prompt = ExtractedLast

\* C19 amended: the prompt is wrapped exactly when at least one user or assistant
\* message with a non-empty extracted text precedes the last user message;
\* otherwise it is exactly the extracted text of the last user message (empty
\* when there is none).
C19_WrappedIffHistory ==
  HistoryInPrompt =>
    /\ IsWrapped(lastQuery.prompt) <=> (HistoryPositions # {})
    /\ (HistoryPositions = {}) => lastQuery.prompt = ExtractedLast

\* messages precede the last user message, none of them is a turn with text, and
\* the prompt is the bare text
C19_Witness ==
  /\ HistoryInPrompt
  /\ LastUserPos = 3
  /\ context[1].role = "system"
  /\ extractTextFromContent(context[1].content) # <<>>
  /\ context[2].role = "assistant"
  /\ HistoryPositions = {}
  /\ lastQuery.prompt = <<"y", "z">>

\* the {role, content} records the history section has to hold, in order
ExpectedRecords ==
  [k \in 1..Cardinality(HistoryPositions) |->
     LET i == Nth(HistoryPositions, k)
     IN [role |-> context[i].role, content |-> extractTextFromContent(context[i].content)]]

\* C20: a wrapped prompt is the history section, holding the JSON of exactly the
\* preceding user and assistant messages with non-empty extracted text as
\* {role, content} records in order, followed by the current-message section
\* holding the extracted text of the last user message.
C20_WrappedSections ==
  (HistoryInPrompt /\ IsWrapped(lastQuery.prompt)) =>
    lastQuery.prompt =
      <<HistOpen, NL>> \o JsonStringify(ExpectedRecords)
        \o <<NL, HistClose, NL, NL, CurOpen, NL>> \o ExtractedLast \o <<NL, CurClose>>

\* a wrapped prompt whose history skips a system message with text and keeps an
\* assistant message with array content
C20_Witness ==
  /\ HistoryInPrompt
  /\ IsWrapped(lastQuery.prompt)
  /\ Len(context) = 3
  /\ context[1].role = "system"
  /\ extractTextFromContent(context[1].content) = <<"x">>
  /\ context[2].role = "assistant"
  /\ extractTextFromContent(context[2].content) = <<"y", "z">>
  /\ context[3] = [role |-> "user", content |-> StringContent(<<"x">>)]


\* C21: the prompt builder never fails, and for a context with no messages or
\* with no user message the prompt is the empty string, whatever other messages
\* the context holds.
C21_NoUserEmptyPrompt ==
  (pc # "idle") =>
    /\ lastQuery.called
    /\ (LastUserPos = 0) => lastQuery.prompt = <<>>

\* three messages with text, none of them from the user, and an empty prompt
C21_Witness ==
  /\ lastQuery.called
  /\ Len(context) = 3
  /\ LastUserPos = 0
  /\ \A i \in 1..3 : extractTextFromContent(context[i].content) # <<>>
  /\ lastQuery.prompt = <<>>

(* ---------------- a consumer of the wrapped prompt ---------------- *)
\* TRUE when the tokens of toks from position i on start with seq
StartsWith(toks, i, seq) ==
  /\ i + Len(seq) - 1 <= Len(toks)
  /\ SubSeq(toks, i, i + Len(seq) - 1) = seq

\* what follows the history section
Separator == <<NL, HistClose, NL, NL, CurOpen, NL>>

\* first position from 3 on where the separator starts, 0 when there is none
FirstSeparator(prompt) ==
  LET hits == {k \in 3..Len(prompt) : StartsWith(prompt, k, Separator)}
  IN IF hits = {} THEN 0 ELSE CHOOSE k \in hits : \A j \in hits : k <= j

\* the text between the history delimiters
HistorySection(prompt) == SubSeq(prompt, 3, FirstSeparator(prompt) - 1)

\* the text between the current-message delimiters
CurrentSection(prompt) ==
  SubSeq(prompt, FirstSeparator(prompt) + Len(Separator), Len(prompt) - 2)

ParseFailure == [ok |-> FALSE, value |-> <<>>, next |-> 0]

\* the character an escape sequence stands for
Unescape(t) == IF t = "n" THEN NL ELSE t

\* reads a JSON string from the position after its opening quote
RECURSIVE ReadString(_, _, _)
ReadString(toks, i, acc) ==
  IF i > Len(toks) THEN ParseFailure
  ELSE IF toks[i] = QUOTE THEN [ok |-> TRUE, value |-> acc, next |-> i + 1]
  ELSE IF toks[i] = NL THEN ParseFailure
  ELSE IF toks[i] = BACKSLASH
    THEN IF i + 1 > Len(toks) \/ toks[i + 1] \notin {QUOTE, BACKSLASH, "n"} THEN ParseFailure
         ELSE ReadString(toks, i + 2, Append(acc, Unescape(toks[i + 1])))
  ELSE ReadString(toks, i + 1, Append(acc, toks[i]))

RoleKey == <<"  ", "{", NL, "    ", QUOTE, "role", QUOTE, ":", " ", QUOTE>>

ContentKey == <<",", NL, "    ", QUOTE, "content", QUOTE, ":", " ", QUOTE>>

RecordEnd == <<NL, "  ", "}">>

\* reads one {role, content} record from position i
ReadRecord(toks, i) ==
  IF ~StartsWith(toks, i, RoleKey) THEN ParseFailure
  ELSE LET role == ReadString(toks, i + Len(RoleKey), <<>>)
       IN IF ~role.ok \/ Len(role.value) # 1 \/ ~StartsWith(toks, role.next, ContentKey)
            THEN ParseFailure
          ELSE LET content == ReadString(toks, role.next + Len(ContentKey), <<>>)
               IN IF ~content.ok \/ ~StartsWith(toks, content.next, RecordEnd)
                    THEN ParseFailure
                  ELSE [ok |-> TRUE,
                        value |-> [role |-> role.value[1], content |-> content.value],
                        next |-> content.next + Len(RecordEnd)]

\* reads the records of an array from position i to the end of toks
RECURSIVE ReadRecords(_, _, _)
ReadRecords(toks, i, acc) ==
  LET r == ReadRecord(toks, i)
  IN IF ~r.ok THEN ParseFailure
     ELSE IF StartsWith(toks, r.next, <<",", NL>>)
       THEN ReadRecords(toks, r.next + 2, Append(acc, r.value))
     ELSE IF StartsWith(toks, r.next, <<NL, "]">>) /\ r.next + 1 = Len(toks)
       THEN [ok |-> TRUE, value |-> Append(acc, r.value), next |-> r.next + 2]
     ELSE ParseFailure

\* JSON.parse of the history section
DecodeHistory(toks) ==
  IF toks = <<"[", "]">> THEN [ok |-> TRUE, value |-> <<>>, next |-> 3]
  ELSE IF ~StartsWith(toks, 1, <<"[", NL>>) THEN ParseFailure
  ELSE ReadRecords(toks, 3, <<>>)

\* C22: for every context that yields a wrapped prompt, decoding the text between
\* the history delimiters gives back exactly the serialized {role, content}
\* pairs, and the text between the current-message delimiters is exactly the last
\* user message's text, also for texts that hold the delimiter strings.
C22_RoundTrip ==
  (HistoryInPrompt /\ HistoryPositions # {}) =>
    /\ FirstSeparator(lastQuery.prompt) > 0
    /\ DecodeHistory(HistorySection(lastQuery.prompt)).ok
    /\ DecodeHistory(HistorySection(lastQuery.prompt)).value = ExpectedRecords
    /\ CurrentSection(lastQuery.prompt) = ExtractedLast

\* a wrapped prompt whose history holds the separator and a quote, and whose
\* current message holds the closing delimiter and backslashes
C22_Witness ==
  /\ HistoryInPrompt
  /\ Len(context) = 3
  /\ context[1].content = StringContent(<<QUOTE, NL, HistClose, NL, NL, CurOpen, NL, "x">>)
  /\ context[2].role = "assistant"
  /\ context[2].content = StringContent(<<BACKSLASH, "n", NL, CurClose, "]", BACKSLASH>>)
  /\ context[3].role = "user"
  /\ context[3].content = StringContent(<<BACKSLASH, "n", NL, CurClose, "]", BACKSLASH>>)
  /\ Len(DecodeHistory(HistorySection(lastQuery.prompt)).value) = 2


(* ---------------- content normalizer ---------------- *)
\* the texts of the blocks tagged text, in order, one after the other
RECURSIVE TextOfTextBlocks(_, _)
TextOfTextBlocks(blocks, k) ==
  IF k = 0 THEN <<>>
  ELSE TextOfTextBlocks(blocks, k - 1)
         \o (IF blocks[k].type = "text" THEN blocks[k].text ELSE <<>>)

\* what the normalizer has to return for a content
NormalizedText(content) ==
  CASE content.kind = "string" -> content.text
    [] content.kind = "array" -> TextOfTextBlocks(content.blocks, Len(content.blocks))
    [] OTHER -> <<>>

\* the extracted prompt of the query: the prompt itself, or its current-message
\* section when it is wrapped
ExtractedPrompt ==
  IF toolPolicy = "suppress" /\ HistoryPositions # {}
    THEN CurrentSection(lastQuery.prompt)
    ELSE lastQuery.prompt

\* C23: the normalizer returns a string content unchanged, the concatenation in
\* order of the texts of the text blocks for a sequence of blocks, and the empty
\* string otherwise; the extracted prompt of the last user message is the
\* normalizer's result on that message's content.
C23_NormalizerPrompt ==
  lastQuery.called =>
    /\ \A i \in 1..Len(context) :
         extractTextFromContent(context[i].content) = NormalizedText(context[i].content)
    /\ (LastUserPos > 0) => ExtractedPrompt = NormalizedText(context[LastUserPos].content)


(* ---------------- the query call ---------------- *)
\* C24: the options handed to the query carry the model's id, the context's
\* system prompt when it is a string, maxTokens equal to the stream option's
\* maxTokens when given and to the model's otherwise, and the stream option's
\* temperature; an override of one invocation has no effect on a later one.
C24_QueryOptions ==
  lastQuery.called =>
    /\ lastQuery.options.model = ModelId
    /\ lastQuery.options.systemPrompt =
         (IF systemPrompt.kind = "string"
            THEN [defined |-> TRUE, text |-> systemPrompt.text]
            ELSE [defined |-> FALSE, text |-> ""])
    /\ lastQuery.options.maxTokens =
         (IF streamOptions.given /\ streamOptions.maxTokens # Absent
            THEN streamOptions.maxTokens ELSE ModelMaxTokens)
    /\ lastQuery.options.temperature =
         (IF streamOptions.given THEN streamOptions.temperature ELSE Absent)

\* an invocation without stream options after one that overrode maxTokens and
\* temperature: the query gets the model's maxTokens and no temperature
C24_Witness ==
  /\ prevRun.finished
  /\ prevRun.query.called
  /\ prevRun.streamOptions = StreamOptions(1000, 7)
  /\ prevRun.query.options.maxTokens = 1000
  /\ streamOptions = NoStreamOptions
  /\ systemPrompt = StringSystemPrompt("sys")
  /\ lastQuery.called
  /\ lastQuery.options.maxTokens = ModelMaxTokens
  /\ lastQuery.options.temperature = Absent

\* C25: each invocation calls the query at most once: exactly once when the
\* capability is available, with only a prompt and options under the
\* history-in-prompt strategy, and never again after a fault or a done event.
C25_QueryCalledOnce ==
  /\ queryCalls <= 1
  /\ (pc \in {"consuming", "finished"} /\ ~importFailed) => queryCalls = 1
  /\ importFailed => queryCalls = 0
  /\ (queryCalls = 1) <=> lastQuery.called
  /\ (toolPolicy = "suppress" /\ lastQuery.called) => lastQuery.messages.kind = "none"

\* a translation that pushed done and then met a fault, with one query call
C25_Witness ==
  /\ toolPolicy = "suppress"
  /\ pc = "finished"
  /\ fault # NoFault
  /\ DonePos # {}
  /\ queryCalls = 1
  /\ lastQuery.messages = NoMessagesKey


(* ---------------- repeated and concurrent invocations ---------------- *)
\* C26: two invocations given the same model, context and upstream message
\* sequence emit identical event sequences (the events carry no timestamp here).
C26_ReplayIdentical ==
  (/\ prevRun.finished
   /\ pc = "finished"
   /\ consumed = prevRun.consumed
   /\ fault = prevRun.fault
   /\ importFailed = prevRun.importFailed
   /\ lastQuery.threw = prevRun.query.threw)
    => events = prevRun.events

\* the second invocation has finished on an upstream with a text block and a
\* result with usage, which the first had left behind in its locals
C26_Witness ==
  /\ prevRun.finished
  /\ pc = "finished"
  /\ consumed = prevRun.consumed
  /\ Len(consumed) = 2
  /\ UpstreamTextBlocks # <<>>
  /\ consumed[2].type = "result"
  /\ consumed[2].usage.present
  /\ Len(events) = 5


(* ---------------- tool forwarding ---------------- *)
IsToolCallStart(e) == e.type = "toolcall_start"

IsToolCallEnd(e) == e.type = "toolcall_end"

ToolStartPos == Positions(events, IsToolCallStart)

UpstreamToolUses == SelectSeq(UpstreamBlocks(consumed), IsToolUseBlock)

\* C28: under the tool-forwarding policy every tool_use block produces exactly a
\* toolcall_start followed at once by a toolcall_end with the same content
\* index; the toolcall_end carries a tool call with the block's id, name and
\* input; the tool call is appended to the accumulated content between the two
\* events; and the content index advances by one.
C28_ToolUseForwarded ==
  toolPolicy = "forward" =>
    /\ Cardinality(ToolStartPos) = Len(UpstreamToolUses)
    /\ Cardinality(Positions(events, IsToolCallEnd)) = Len(UpstreamToolUses)
    /\ contentIndex = Cardinality(Positions(events, IsBlockStart))
    /\ \A i \in ToolStartPos :
         LET block == UpstreamToolUses[Cardinality({j \in ToolStartPos : j <= i})]
             toolCall == [type |-> "toolCall", id |-> block.id, name |-> block.name,
                          arguments |-> block.input]
         IN /\ i < Len(events)
            /\ IsToolCallEnd(events[i + 1])
            /\ events[i + 1].contentIndex = events[i].contentIndex
            /\ events[i].contentIndex = Cardinality({j \in Positions(events, IsBlockStart) : j < i})
            /\ events[i + 1].toolCall = toolCall
            /\ events[i + 1].partial.content = Append(events[i].partial.content, toolCall)
            /\ Len(events[i].partial.content) = events[i].contentIndex

\* a text block and then a tool_use block have been forwarded
C28_Witness ==
  /\ toolPolicy = "forward"
  /\ Len(consumed) = 1
  /\ consumed[1].type = "assistant"
  /\ Len(consumed[1].content) = 2
  /\ consumed[1].content[1].type = "text"
  /\ consumed[1].content[2].type = "tool_use"
  /\ Len(events) = 6
  /\ events[5].type = "toolcall_start"
  /\ events[6].type = "toolcall_end"
  /\ events[6].contentIndex = 1
  /\ contentIndex = 2

\* C29: under the tool-forwarding policy the reason of every done event is
\* toolUse for stop reason tool_use, length for max_tokens, and stop for every
\* other or absent value.
C29_StopReasonForward ==
  toolPolicy = "forward" =>
    /\ Cardinality(DonePos) = Cardinality(ResultPos)
    /\ \A p \in ResultPos :
         DoneOfResult(p).reason =
           (CASE consumed[p].stop_reason = "tool_use" -> "toolUse"
              [] consumed[p].stop_reason = "max_tokens" -> "length"
              [] OTHER -> "stop")

\* a done with reason toolUse and one with reason stop for an absent stop reason
C29_Witness ==
  /\ toolPolicy = "forward"
  /\ Len(consumed) = 2
  /\ consumed[1].type = "result" /\ consumed[1].stop_reason = "tool_use"
  /\ consumed[2].type = "result" /\ consumed[2].stop_reason = "undefined"
  /\ events[2].type = "done" /\ events[2].reason = "toolUse"
  /\ events[3].type = "done" /\ events[3].reason = "stop"


\* what an invocation that runs alone has emitted and holds after the upstream
\* messages msgs
RECURSIVE RunAlone(_, _)
RunAlone(msgs, policy) ==
  IF msgs = <<>> THEN StartedInvocation
  ELSE LoopTurn(RunAlone(SubSeq(msgs, 1, Len(msgs) - 1), policy), msgs[Len(msgs)], policy)

\* the events of a run alone that met the fault f (NoFault: none)
EventsAlone(msgs, f, policy) ==
  IF f = NoFault THEN RunAlone(msgs, policy).events
  ELSE Append(RunAlone(msgs, policy).events, ErrorEvent(ErrText(f), ModelId))

\* C27: when two invocations of one stream function run with their upstream
\* messages interleaved in any order, each emits the event sequence it would
\* emit alone, and holds the accumulated content, index and usage it would hold
\* alone.
C27_InterleavedAsAlone ==
  /\ (pc \in {"consuming", "finished"} /\ ~lastQuery.threw) =>
       /\ events = EventsAlone(consumed, fault, toolPolicy)
       /\ accumulatedContent = RunAlone(consumed, toolPolicy).accumulatedContent
       /\ contentIndex = RunAlone(consumed, toolPolicy).contentIndex
       /\ currentUsage = RunAlone(consumed, toolPolicy).currentUsage
  /\ (other.pc \in {"consuming", "finished"}) =>
       /\ other.events = RunAlone(other.consumed, toolPolicy).events
       /\ other.accumulatedContent = RunAlone(other.consumed, toolPolicy).accumulatedContent
       /\ other.contentIndex = RunAlone(other.consumed, toolPolicy).contentIndex
       /\ other.currentUsage = RunAlone(other.consumed, toolPolicy).currentUsage

\* the second invocation has translated a result with usage, and the first a
\* text block and a result without usage
C27_Witness ==
  /\ pc = "consuming"
  /\ other.pc = "consuming"
  /\ consumed = <<AssistantMsg(TRUE, <<TextBlock("a")>>), ResultMsg("tool_use", NoUsage)>>
  /\ other.consumed = <<ResultMsg("max_tokens", FullUsage)>>
  /\ Len(events) = 5
  /\ events[5].message.usage = createDefaultUsage
  /\ other.events[Len(other.events)].message.usage.input = 10


(* ---------------- history as turns ---------------- *)
\* the converted forms of the context messages up to position k other than the
\* last user message, in context order, system and tool messages left out
RECURSIVE TurnsUpTo(_)
TurnsUpTo(k) ==
  IF k = 0 THEN <<>>
  ELSE TurnsUpTo(k - 1)
         \o (IF k = LastUserPos \/ context[k].role \in {"system", "tool"} THEN <<>>
             ELSE convertContextMessageToCodeBuddy(context[k]))

\* C30: under the history-as-turns strategy the prompt is the last user message's
\* text, and the prior turns handed to the query are exactly the converted forms
\* of every context message other than that last user message, in context order,
\* system and tool messages left out, also when the last message of the context
\* is not a user message.
C30_PriorTurns ==
  (toolPolicy = "forward" /\ lastQuery.called) =>
    /\ lastQuery.prompt = ExtractedLast
    /\ lastQuery.messages.turns = TurnsUpTo(Len(context))


(* ---------------- C31 ---------------- *)
\* C31: once the upstream sequence has ended or has raised a fault, the
\* downstream sequence is eventually closed: the translator does not stay in
\* the consume loop after the upstream has terminated.
C31_TerminatedLeadsToClosed ==
  (pc \in {"ended", "faulted"}) ~> (pc = "finished" /\ endCalls = 1)

\* the upstream has yielded a message and then raised a fault, and the
\* downstream sequence is closed
C31_Witness ==
  /\ pc = "finished"
  /\ endCalls = 1
  /\ Len(consumed) >= 1
  /\ lastQuery.called /\ ~lastQuery.threw
  /\ fault # NoFault

(* ---------------- C32 ---------------- *)
IsPrefix(s, t) == Len(s) <= Len(t) /\ SubSeq(t, 1, Len(s)) = s

\* C32: the accumulated content of a translation is append-only: at every step
\* the accumulated content before the step is a prefix of the one after it, so
\* no item is removed, reordered or changed and the length only grows.
C32_AccumulatedAppendOnly ==
  [][IsPrefix(accumulatedContent, accumulatedContent')]_vars

\* two assistant messages have each added an item to the accumulated content
C32_Witness ==
  /\ Len(consumed) = 2
  /\ \A k \in 1..2 : consumed[k].type = "assistant" /\ consumed[k].hasContent
                       /\ Len(consumed[k].content) = 1
  /\ Len(accumulatedContent) = 2
  /\ accumulatedContent[1] # accumulatedContent[2]

(* ---------------- C33 ---------------- *)
\* the first n items accumulated by the translation
AccumulatedBefore(n) == SubSeq(accumulatedContent, 1, n)

\* C33: as emitted, the snapshot of a text_start or text_delta event with index i
\* holds exactly the i items accumulated before the block, and the snapshot of
\* the text_end event with index i holds exactly i+1 items, the last of which is
\* the text item of the block.
C33_SnapshotAtEmission ==
  \A k \in 1..Len(events) :
    LET e == events[k] IN
      /\ e.type \in {"text_start", "text_delta"} =>
           /\ Len(e.partial.content) = e.contentIndex
           /\ e.contentIndex <= Len(accumulatedContent)
           /\ e.partial.content = AccumulatedBefore(e.contentIndex)
      /\ e.type = "text_end" =>
           /\ Len(e.partial.content) = e.contentIndex + 1
           /\ e.contentIndex + 1 <= Len(accumulatedContent)
           /\ e.partial.content = AccumulatedBefore(e.contentIndex + 1)
           /\ e.partial.content[e.contentIndex + 1] = [type |-> "text", text |-> e.content]

\* a second text block has been translated: its events carry index 1, a
\* snapshot of one item before the append and of two items after it
C33_Witness ==
  /\ \E k \in 1..Len(events) :
       /\ events[k].type = "text_delta"
       /\ events[k].contentIndex = 1
       /\ Len(events[k].partial.content) = 1
  /\ \E k \in 1..Len(events) :
       /\ events[k].type = "text_end"
       /\ events[k].contentIndex = 1
       /\ Len(events[k].partial.content) = 2

(* ---------------- C34 ---------------- *)
\* the upstream has ended normally and has yielded no result message
EndedWithoutResult ==
  /\ pc = "finished"
  /\ lastQuery.called /\ ~lastQuery.threw
  /\ fault = NoFault
  /\ ResultPos = {}

\* C34: when the upstream sequence ends normally without ever yielding a result
\* message, no done event is pushed for the translation: the events are start
\* followed only by block events.
C34_NoResultNoDone ==
  EndedWithoutResult =>
    /\ DonePos = {}
    /\ Len(events) >= 1
    /\ IsStart(events[1])
    /\ \A k \in 2..Len(events) : IsBlockEvent(events[k])

\* the upstream has yielded a text block and ended without a result message
C34_Witness ==
  /\ EndedWithoutResult
  /\ endCalls = 1
  /\ Len(consumed) >= 1
  /\ \E k \in 2..Len(events) : events[k].type = "text_end"

(* ---------------- C35 ---------------- *)
\* the events of a finished first invocation that called the query are its own:
\* those it would emit alone on the messages it consumed
FirstEventsOwn ==
  IF lastQuery.threw THEN events = <<ErrorEvent(ErrText(fault), ModelId)>>
  ELSE events = EventsAlone(consumed, fault, toolPolicy)

SecondEventsOwn == other.events = RunAlone(other.consumed, toolPolicy).events

\* the steps of the resolution: an invocation awaits the import exactly when it
\* finds no query function; a successful import leaves the function in the
\* closure, where it stays; a rejected import leaves the closure as it was
ResolutionSteps ==
  /\ (pc = "idle" /\ pc' # "idle") => ((pc' = "importing") <=> (resolvedQueryFn = "null"))
  /\ (other.pc = "idle" /\ other'.pc # "idle") =>
       ((other'.pc = "importing") <=> (resolvedQueryFn = "null"))
  /\ (pc = "importing" /\ pc' # "importing" /\ ~importFailed') => resolvedQueryFn' = "fn"
  /\ (other.pc = "importing" /\ other'.pc # "importing" /\ ~other'.importFailed) =>
       resolvedQueryFn' = "fn"
  /\ (resolvedQueryFn = "fn") => (resolvedQueryFn' = "fn")
  /\ ((~importFailed /\ importFailed') \/ (~other.importFailed /\ other'.importFailed)) =>
       resolvedQueryFn' = resolvedQueryFn

\* C35 as it is stated: when two invocations of a stream function created
\* without a query function run concurrently, under every interleaving of
\* their resolution steps each invocation calls the query exactly once and
\* emits its own events, whatever the number of resolutions; an invocation
\* started after a successful resolution performs none, and a failed
\* resolution is not remembered and is attempted again by the next invocation.
C35_EachCallsQueryOnce ==
  /\ [](/\ (pc = "finished") => (queryCalls = 1 /\ FirstEventsOwn)
        /\ (other.pc = "finished") => (other.queryCalls = 1 /\ SecondEventsOwn))
  /\ [][ResolutionSteps]_vars

\* C35, amended: each invocation whose resolution does not fail calls the query
\* exactly once and emits its own events, whatever the number of resolutions;
\* an invocation whose resolution fails never calls the query and emits the
\* single error event; an invocation started after a successful resolution
\* performs none, and a failed resolution is not remembered and is attempted
\* again by the next invocation.
C35_ResolvedCallsQueryOnce ==
  /\ [](/\ (pc = "finished") =>
             IF importFailed
               THEN queryCalls = 0 /\ events = <<ErrorEvent(SdkMissingText, "")>>
               ELSE queryCalls = 1 /\ FirstEventsOwn
        /\ (other.pc = "finished") =>
             IF other.importFailed
               THEN other.queryCalls = 0 /\ other.events = <<ErrorEvent(SdkMissingText, "")>>
               ELSE other.queryCalls = 1 /\ SecondEventsOwn)
  /\ [][ResolutionSteps]_vars

\* the second invocation has resolved the query function itself, called the
\* query once and finished, while the first, started before that resolution
\* succeeded, is still awaiting its own: the resolution is performed twice
C35_Witness ==
  /\ other.pc = "finished"
  /\ other.imported /\ ~other.importFailed
  /\ other.queryCalls = 1
  /\ Len(other.consumed) >= 1
  /\ resolvedQueryFn = "fn"
  /\ pc = "importing"

(* ---------------- C36 ---------------- *)
\* the other build of the adapter
OtherPolicy(policy) == IF policy = "suppress" THEN "forward" ELSE "suppress"

\* the upstream messages hold no tool_use block and no result message with the
\* stop reason tool_use
NoToolUse(msgs) ==
  /\ \A k \in 1..Len(UpstreamBlocks(msgs)) : UpstreamBlocks(msgs)[k].type # "tool_use"
  /\ \A k \in 1..Len(msgs) : msgs[k].type = "result" => msgs[k].stop_reason # "tool_use"

\* C36: on every upstream message sequence without a tool_use block and without
\* a result message of stop reason tool_use, the tool-suppressing build and the
\* tool-forwarding build emit the same events: the events of either build are
\* those the other build emits on the same messages and the same fault.
C36_BuildsAgreeWithoutTools ==
  (lastQuery.called /\ ~lastQuery.threw /\ NoToolUse(consumed)) =>
    events = EventsAlone(consumed, fault, OtherPolicy(toolPolicy))

\* a text block, a tool_result block and a result message have been translated
C36_Witness ==
  /\ pc = "finished"
  /\ ~lastQuery.threw
  /\ NoToolUse(consumed)
  /\ Len(consumed) = 2
  /\ consumed[1].type = "assistant" /\ consumed[1].hasContent
  /\ consumed[1].content = <<TextBlock("a"), ToolResultBlock>>
  /\ consumed[2].type = "result" /\ consumed[2].stop_reason = "max_tokens"
  /\ events[Len(events)].type = "done"

(* ---------------- C37 ---------------- *)
\* the text of the failure the invocation has met
FailureText == IF importFailed THEN SdkMissingText ELSE ErrText(fault)

\* C37: the message carried by an error event holds exactly one text item, the
\* failure text, and all-zero usage, whatever content had been accumulated and
\* whatever usage a result message had set before the fault; no accumulated
\* item appears in it.
C37_ErrorMessageBare ==
  \A k \in 1..Len(events) :
    IsError(events[k]) =>
      /\ events[k].error.content = <<[type |-> "text", text |-> FailureText]>>
      /\ events[k].error.usage = createDefaultUsage
      /\ \A i \in 1..Len(accumulatedContent) :
           \A j \in 1..Len(events[k].error.content) :
             events[k].error.content[j] # accumulatedContent[i]

\* the upstream has raised a fault after a text block was accumulated and a
\* result message had set the usage
C37_Witness ==
  /\ pc = "finished"
  /\ fault # NoFault
  /\ accumulatedContent # <<>>
  /\ currentUsage.input > 0 /\ currentUsage.cacheRead > 0
  /\ IsError(events[Len(events)])
  /\ \E k \in 1..Len(events) : IsDone(events[k])

(* ---------------- C38 ---------------- *)
\* the usage carried by an event
UsageOf(e) ==
  IF e.type = "done" THEN e.message.usage
  ELSE IF e.type = "error" THEN e.error.usage
  ELSE e.partial.usage

\* C38: in every emitted event the usage has totalTokens = input + output, the
\* cache read and cache write counts not added, and every cost field is zero,
\* whatever result messages the upstream has yielded.
C38_TotalIsInputPlusOutput ==
  \A k \in 1..Len(events) :
    LET u == UsageOf(events[k]) IN
      /\ u.totalTokens = u.input + u.output
      /\ u.cost = [input |-> 0, output |-> 0, cacheRead |-> 0, cacheWrite |-> 0, total |-> 0]

\* a done event carries a usage with non-zero cache counts, and an event after
\* it the usage of a second result message
C38_Witness ==
  /\ \E k \in 1..Len(events) :
       /\ IsDone(events[k])
       /\ UsageOf(events[k]).cacheRead > 0 /\ UsageOf(events[k]).cacheWrite > 0
       /\ UsageOf(events[k]).totalTokens = 15
  /\ IsDone(events[Len(events)])
  /\ UsageOf(events[Len(events)]).totalTokens = 7

(* ---------------- C39 ---------------- *)
\* the context without its message at position k
WithoutMessage(k) == SubSeq(context, 1, k - 1) \o SubSeq(context, k + 1, Len(context))

\* the tokens of a sequence
TokensOf(toks) == {toks[i] : i \in 1..Len(toks)}

\* the tokens of the extracted texts of the context messages at the positions ps
TextTokens(ps) == UNION {TokensOf(extractTextFromContent(context[i].content)) : i \in ps}

\* C39: under the history-in-prompt strategy a context message located after
\* the last user message contributes nothing to the prompt: the prompt is the
\* one built for the context without that message, and for the context cut
\* after the last user message, and no token that only such messages hold
\* occurs in it.
C39_TrailingMessagesIgnored ==
  (toolPolicy = "suppress" /\ lastQuery.called /\ LastUserPos > 0) =>
    /\ \A k \in (LastUserPos + 1)..Len(context) :
         lastQuery.prompt = buildPromptWithHistory(WithoutMessage(k))
    /\ lastQuery.prompt = buildPromptWithHistory(SubSeq(context, 1, LastUserPos))
    /\ (TextTokens((LastUserPos + 1)..Len(context)) \ TextTokens(1..LastUserPos))
         \cap TokensOf(lastQuery.prompt) = {}

\* an assistant message with text of its own follows the last user message of
\* a context with history, and the query has been called
C39_Witness ==
  /\ toolPolicy = "suppress"
  /\ lastQuery.called
  /\ Len(context) = 3
  /\ LastUserPos = 2
  /\ HistoryPositions = {1}
  /\ context[3].role = "assistant"
  /\ extractTextFromContent(context[3].content) = <<"y", "z">>
  /\ extractTextFromContent(context[1].content) = <<"x">>
  /\ extractTextFromContent(context[2].content) = <<"x">>
  /\ IsWrapped(lastQuery.prompt)
====
